---------------------------- MODULE Spec2Model ----------------------------
(***************************************************************************)
(* A model of picocode's trust layer: the lexical path confinement          *)
(* (src/src/tools.rs, validate_path), the confirmation guard that wraps    *)
(* the state-changing tools (src/src/agent.rs, Guard), the file tools      *)
(* (src/src/tools.rs), the interactive loop with its operator modes        *)
(* (src/src/agent.rs, run_interactive), a turn's rounds of tool calls      *)
(* (CodeAgent::prompt and the engine it calls) and the tool dispatch hook  *)
(* (LoggingHook and the console displays of src/src/output.rs).            *)
(*                                                                         *)
(* Strings are sequences of one-character strings, so that parsing a path  *)
(* into components, joining, pushing and popping are computed on the text  *)
(* as std::path computes them on Unix.                                     *)
(***************************************************************************)
EXTENDS Integers, Sequences, FiniteSets, TLC

VARIABLES
    base,             \* validate_path: the trusted root (std::env::current_dir())
    path,             \* validate_path: the requested path text
    vp,               \* validate_path: its return value, or NotRun before the call
    yolo,             \* AgentConfig.yolo, copied into every Guard
    bash_auto_allow,  \* AgentConfig.bash_auto_allow, the bash guard's patterns
    browser,          \* is_tool_available("agent-browser") at construction
    always,           \* Guard.always of each guard instance
    calls,            \* the tool calls in flight, one record per engine slot
    answered_always,  \* history: the guards whose prompt was answered Always
    tcall,            \* a file tool's call: its arguments and how far it has got
    fs_ops,           \* the filesystem operations the tool's call has made
    current_mode,     \* run_interactive: current_mode
    history,          \* run_interactive: history, the messages of the session
    responses,        \* run_interactive: responses, kept for /write
    files,            \* the files /write has written, by name
    loop,             \* run_interactive: where the loop is, the line it read
    turns,            \* the turns sent to the model: input and history given
    thinking,         \* Output: the thinking indicator is shown
    eng,              \* the engine's turn: rounds run, results fed back
    hook,             \* LoggingHook: what it displayed last, or that it panicked
    asked,            \* Output::confirm: what the operator typed, what it returned
    edit              \* edit_file: the file's text, the arguments, the return

path_vars == <<base, path, vp>>
guard_vars == <<yolo, bash_auto_allow, browser, always, calls, answered_always>>
tool_vars == <<tcall, fs_ops>>
loop_vars == <<current_mode, history, responses, files, loop, turns, thinking>>
engine_vars == <<eng, hook>>
io_vars == <<asked, edit>>
vars == <<base, path, vp, yolo, bash_auto_allow, browser, always, calls,
          answered_always, tcall, fs_ops, current_mode, history, responses,
          files, loop, turns, thinking, eng, hook, asked, edit>>

(***************************************************************************)
(* Bounds of the path model.                                               *)
(***************************************************************************)
MaxPathLen == 7
MaxRootLen == 4

PathChars == {"/", ".", "a"}

StringsUpTo(n) == UNION {[1..k -> PathChars] : k \in 0..n}

(***************************************************************************)
(* std::path on Unix, as used by validate_path.                            *)
(***************************************************************************)
RootDir == <<"/">>
CurDir == <<".">>
ParentDir == <<".", ".">>
NoComponent == <<>>

is_absolute(p) == Len(p) > 0 /\ p[1] = "/"

\* Components::include_cur_dir: a leading "." that is a whole piece of a
\* path without a root.
include_cur_dir(p) ==
    /\ ~is_absolute(p)
    /\ Len(p) > 0
    /\ p[1] = "."
    /\ (Len(p) = 1 \/ p[2] = "/")

len_before_body(p) ==
    (IF is_absolute(p) THEN 1 ELSE 0) + (IF include_cur_dir(p) THEN 1 ELSE 0)

\* The pieces of the text between separators, empty pieces included.
RECURSIVE SplitSep(_)
SplitSep(s) ==
    IF s = <<>> THEN << <<>> >>
    ELSE LET rest == SplitSep(Tail(s)) IN
         IF Head(s) = "/" THEN << <<>> >> \o rest
         ELSE << <<Head(s)>> \o Head(rest) >> \o Tail(rest)

\* Path::components: RootDir for a rooted path, CurDir for a leading "."
\* of a relative one, then every piece that is neither empty nor ".".
components(p) ==
    LET front == IF is_absolute(p) THEN <<RootDir>>
                 ELSE IF include_cur_dir(p) THEN <<CurDir>>
                 ELSE <<>>
        body == SelectSeq(SplitSep(p), LAMBDA x : x # <<>> /\ x # <<".">>)
    IN front \o body

\* PathBuf::push: an absolute path replaces the buffer, a relative one is
\* appended after a separator when the buffer does not end in one.
push(buf, p) ==
    IF is_absolute(p) THEN p
    ELSE IF Len(buf) > 0 /\ buf[Len(buf)] # "/" THEN buf \o <<"/">> \o p
    ELSE buf \o p

\* Path::join
join(b, p) == push(b, p)

\* Components::parse_next_component_back: where the last piece of the body
\* starts.
RECURSIVE PieceStart(_, _, _)
PieceStart(s, start, i) ==
    IF i > start + 1 /\ s[i - 1] # "/" THEN PieceStart(s, start, i - 1) ELSE i

\* Components::next_back: the last component and the text before it.
RECURSIVE next_back(_)
next_back(s) ==
    LET start == len_before_body(s) IN
    IF Len(s) > start
    THEN LET i == PieceStart(s, start, Len(s) + 1)
             comp == SubSeq(s, i, Len(s))
             size == Len(comp) + (IF i > start + 1 THEN 1 ELSE 0)
             rest == SubSeq(s, 1, Len(s) - size)
         IN IF comp = <<>> \/ comp = <<".">>
            THEN next_back(rest)
            ELSE [comp |-> comp, rest |-> rest]
    ELSE IF is_absolute(s) THEN [comp |-> RootDir, rest |-> <<>>]
    ELSE IF include_cur_dir(s) THEN [comp |-> CurDir, rest |-> <<>>]
    ELSE [comp |-> NoComponent, rest |-> <<>>]

\* Components::trim_right, applied by as_path.
RECURSIVE trim_right(_)
trim_right(s) ==
    LET start == len_before_body(s) IN
    IF Len(s) > start
    THEN LET i == PieceStart(s, start, Len(s) + 1)
             comp == SubSeq(s, i, Len(s))
             size == Len(comp) + (IF i > start + 1 THEN 1 ELSE 0)
         IN IF comp = <<>> \/ comp = <<".">>
            THEN trim_right(SubSeq(s, 1, Len(s) - size))
            ELSE s
    ELSE s

\* pop that removes nothing.
pop_nothing(buf) == buf

\* PathBuf::pop: truncate to Path::parent, or leave the buffer alone when
\* there is no parent (the root, the empty path).
pop(buf) ==
    LET nb == next_back(buf) IN
    IF nb.comp = NoComponent \/ nb.comp = RootDir THEN buf
    ELSE trim_right(nb.rest)

\* starts_with comparing the text, not the components.
starts_with_text(p, b) ==
    Len(b) <= Len(p) /\ SubSeq(p, 1, Len(b)) = b

\* starts_with that lets the last component of the prefix match the start of
\* a longer name.
starts_with_name_prefix(p, b) ==
    LET pc == components(p)
        bc == components(b)
        n == Len(bc)
    IN /\ n <= Len(pc)
       /\ \A i \in 1..n :
             IF i < n THEN pc[i] = bc[i]
             ELSE Len(bc[i]) <= Len(pc[i])
                  /\ SubSeq(pc[i], 1, Len(bc[i])) = bc[i]

\* starts_with that wants something below the prefix.
starts_with_proper(p, b) ==
    LET pc == components(p)
        bc == components(b)
    IN Len(bc) < Len(pc) /\ SubSeq(pc, 1, Len(bc)) = bc

\* Path::starts_with: a prefix of whole components.
starts_with(p, b) ==
    LET pc == components(p)
        bc == components(b)
    IN Len(bc) <= Len(pc) /\ SubSeq(pc, 1, Len(bc)) = bc

(***************************************************************************)
(* validate_path (src/src/tools.rs)                                        *)
(***************************************************************************)
AccessDenied ==
    [kind |-> "Generic",
     msg |-> "Access denied: path must be within the current directory"]

NoError == [kind |-> "None", msg |-> ""]

\* WalkStep with the ParentDir arm lost: ".." is pushed like a name.
WalkStep_push_parent(result, component) ==
    IF component = CurDir THEN result ELSE push(result, component)

\* WalkStep taking every piece of two or more dots for a parent reference.
WalkStep_dots_pop(result, component) ==
    IF Len(component) >= 2 /\ \A i \in 1..Len(component) : component[i] = "."
    THEN pop(result)
    ELSE IF component = CurDir THEN result
    ELSE push(result, component)

\* One iteration of the loop over joined.components().
WalkStep(result, component) ==
    IF component = ParentDir THEN pop(result)
    ELSE IF component = CurDir THEN result
    ELSE push(result, component)

RECURSIVE Walk(_, _)
Walk(cs, result) ==
    IF cs = <<>> THEN result
    ELSE Walk(Tail(cs), WalkStep(result, Head(cs)))

\* validate_path joining every request onto the root, an absolute one too.
validate_path_joins_absolute(b, p) ==
    LET joined == b \o <<"/">> \o p
        result == Walk(components(joined), <<>>)
    IN IF starts_with(result, b)
       THEN [ok |-> TRUE, path |-> result, err |-> NoError]
       ELSE [ok |-> FALSE, path |-> <<>>, err |-> AccessDenied]

validate_path(b, p) ==
    LET joined == IF is_absolute(p) THEN p ELSE join(b, p)
        result == Walk(components(joined), <<>>)
    IN IF starts_with(result, b)
       THEN [ok |-> TRUE, path |-> result, err |-> NoError]
       ELSE [ok |-> FALSE, path |-> <<>>, err |-> AccessDenied]

(***************************************************************************)
(* The roots: get_path passes std::env::current_dir(), an absolute path    *)
(* without ".", ".." or empty pieces and without a trailing separator.     *)
(***************************************************************************)
IsCwd(s) ==
    /\ is_absolute(s)
    /\ \/ s = <<"/">>
       \/ \A i \in 1..Len(SplitSep(Tail(s))) :
             LET x == SplitSep(Tail(s))[i] IN
             x # <<>> /\ x # CurDir /\ x # ParentDir

Roots == {s \in StringsUpTo(MaxRootLen) : IsCwd(s)}

NotRun == [ok |-> FALSE, path |-> <<>>, err |-> NoError]

\* get_path / validate_path applied to the requested path.
ValidatePath ==
    /\ vp = NotRun
    /\ vp' = validate_path(base, path)
    /\ UNCHANGED <<base, path>>
    /\ UNCHANGED <<guard_vars, tool_vars, loop_vars>>

(***************************************************************************)
(* The confirmation guard (src/src/agent.rs)                               *)
(***************************************************************************)
MaxInFlight == 2

CallIds == 1..MaxInFlight

\* The tools build_rig_agent registers with guard(...), and those it
\* registers as they are.
GuardedTools ==
    {"make_dir", "remove", "move_file", "copy_file", "bash", "agent_browser"}

PlainTools ==
    {"read_file", "write_file", "edit_file", "glob_files", "grep_text",
     "list_dir"}

\* agent_browser is registered only when the agent-browser binary is found.
Registered(avail) ==
    PlainTools \cup (GuardedTools \ (IF avail THEN {} ELSE {"agent_browser"}))

Confirmations == {"Yes", "No", "Always"}

\* The argument text of a call: the cmd of bash, the path or args of the
\* other tools.
Cmds == {<<"a">>, <<"b">>, <<"b", "a">>}

\* The auto_allow lists of the configuration file: patterns over literals,
\* the anchors ^ and $, and "(" which opens a group that is never closed.
AutoAllowLists ==
    { <<>>,
      << <<"^", "a">> >>,
      << <<"(">> >>,
      << <<"(">>, <<"a", "$">> >>,
      << <<"^", "a">>, <<"(", "b">> >> }

\* regex::Regex::new: Ok unless the pattern has an unclosed group.
RegexCompiles(pat) == \A i \in 1..Len(pat) : pat[i] # "("

RECURSIVE MatchAt(_, _, _, _)
MatchAt(pat, i, text, k) ==
    IF i > Len(pat) THEN TRUE
    ELSE IF pat[i] = "^" THEN k = 0 /\ MatchAt(pat, i + 1, text, k)
    ELSE IF pat[i] = "$" THEN k = Len(text) /\ MatchAt(pat, i + 1, text, k)
    ELSE k < Len(text) /\ text[k + 1] = pat[i]
         /\ MatchAt(pat, i + 1, text, k + 1)

\* Regex::is_match: an unanchored search.
is_match(pat, text) == \E k \in 0..Len(text) : MatchAt(pat, 1, text, k)

\* The closure failing open: a pattern that does not compile approves.
bash_auto_approve_fail_open(auto_allow, cmd) ==
    \E i \in 1..Len(auto_allow) :
        IF RegexCompiles(auto_allow[i]) THEN is_match(auto_allow[i], cmd)
        ELSE TRUE

\* The closure given to the bash guard:
\* auto_allow.iter().any(|p| Regex::new(p).map(|re| re.is_match(cmd)).unwrap_or(false))
bash_auto_approve(auto_allow, cmd) ==
    \E i \in 1..Len(auto_allow) :
        IF RegexCompiles(auto_allow[i]) THEN is_match(auto_allow[i], cmd)
        ELSE FALSE

\* The predicate never consulted.
should_auto_approve_never(tool, args, auto_allow) == FALSE

\* Guard::call, should_auto_approve: the predicate when the guard has one
\* (only bash does), false otherwise.
should_auto_approve(tool, args, auto_allow) ==
    IF tool = "bash" THEN bash_auto_approve(auto_allow, args) ELSE FALSE

\* The prompt skipped in Plan mode.
needs_confirm_plan_bypass(y, al, auto) ==
    current_mode # "Plan" /\ ~y /\ ~al /\ ~auto

\* The condition without its yolo test.
needs_confirm_ignores_always(y, al, auto) == ~y /\ ~auto

needs_confirm_ignores_yolo(y, al, auto) == ~al /\ ~auto

\* Guard::call, the condition that opens the prompt.
needs_confirm(y, al, auto) == ~y /\ ~al /\ ~auto

\* The Always arm without its store.
always_after_forgets(al, ans) == al

\* The store moved to the No arm as well.
always_after_no_stores(al, ans) == IF ans \in {"Always", "No"} THEN TRUE ELSE al

\* The store moved to the Yes arm as well.
always_after_yes_stores(al, ans) == IF ans \in {"Always", "Yes"} THEN TRUE ELSE al

\* The Always arm storing the negation of the flag it loaded.
always_after_toggle(al, ans) == IF ans = "Always" THEN ~al ELSE al

\* Guard::call, the match on the answer: the value of always afterwards.
always_after(al, ans) == IF ans = "Always" THEN TRUE ELSE al

\* One AtomicBool shared by every guard.
record_answer_shared(alw, t, ans) ==
    [g \in DOMAIN alw |-> always_after(alw[g], ans)]

\* Guard::call on the flags of all guards: guard() gives every instance an
\* AtomicBool of its own, so the store reaches the flag of tool t only.
record_answer(alw, t, ans) == [alw EXCEPT ![t] = always_after(@, ans)]

\* The No arm without its return.
goes_on_regardless(ans) == TRUE

\* Guard::call, the match on the answer: whether the call goes on to
\* self.tool.call(args).
goes_on(ans) == ans # "No"

\* The No arm returning an I/O error.
Cancelled_io == [kind |-> "Io", msg |-> "Action cancelled by user"]

\* Guard::call, the No arm: ToolError::Generic("Action cancelled by user").
Cancelled == [kind |-> "Generic", msg |-> "Action cancelled by user"]
IoError == [kind |-> "Io", msg |-> "IO error"]

\* What a wrapped tool may return: Ok, an I/O error, the access-denied error.
ToolOutcomes ==
    { [ok |-> TRUE, err |-> NoError],
      [ok |-> FALSE, err |-> IoError],
      [ok |-> FALSE, err |-> AccessDenied] }

NoRet == [ok |-> FALSE, err |-> NoError]

Idle ==
    [pc |-> "idle", tool |-> "", args |-> <<>>, prompted |-> FALSE,
     answer |-> "none", delegated |-> 0, ret |-> NoRet]

\* No tool call is in flight: the engine starts the next one only then.
NoneInFlight == \A d \in CallIds : calls[d].pc = "idle"

\* The engine calls a guarded tool: Guard::call up to the prompt.
InvokeGuarded(c, t, a) ==
    /\ calls[c].pc = "idle"
    /\ t \in Registered(browser) \cap GuardedTools
    /\ LET auto == should_auto_approve(t, a, bash_auto_allow)
           ask == needs_confirm(yolo, always[t], auto)
       IN calls' = [calls EXCEPT ![c] =
              [pc |-> IF ask THEN "confirm" ELSE "tool",
               tool |-> t, args |-> a, prompted |-> ask,
               answer |-> "none", delegated |-> 0, ret |-> NoRet]]
    /\ UNCHANGED <<yolo, bash_auto_allow, browser, always, answered_always>>
    /\ UNCHANGED <<path_vars, tool_vars, loop_vars>>

\* The engine calls a tool registered without a guard.
InvokePlain(c, t, a) ==
    /\ calls[c].pc = "idle"
    /\ t \in Registered(browser) \cap PlainTools
    /\ calls' = [calls EXCEPT ![c] =
           [pc |-> "tool", tool |-> t, args |-> a, prompted |-> FALSE,
            answer |-> "none", delegated |-> 0, ret |-> NoRet]]
    /\ UNCHANGED <<yolo, bash_auto_allow, browser, always, answered_always>>
    /\ UNCHANGED <<path_vars, tool_vars, loop_vars>>

\* Output::display_thinking: the indicator is put up unless it is up.
display_thinking(th) == TRUE

\* Output::stop_thinking: the indicator is taken down if it is up.
stop_thinking(th) == FALSE

\* Output::confirm takes the indicator down, returns the operator's answer,
\* and Guard::call matches it.
Confirm(c, ans) ==
    /\ calls[c].pc = "confirm"
    /\ always' = record_answer(always, calls[c].tool, ans)
    /\ answered_always' =
           IF ans = "Always" THEN answered_always \cup {calls[c].tool}
           ELSE answered_always
    /\ calls' = [calls EXCEPT ![c] =
           IF goes_on(ans)
           THEN [@ EXCEPT !.pc = "tool", !.answer = ans]
           ELSE [@ EXCEPT !.pc = "done", !.answer = ans,
                          !.ret = [ok |-> FALSE, err |-> Cancelled]]]
    /\ thinking' = stop_thinking(thinking)
    /\ UNCHANGED <<yolo, bash_auto_allow, browser>>
    /\ UNCHANGED <<current_mode, history, responses, files, loop, turns>>
    /\ UNCHANGED <<path_vars, tool_vars>>

\* The guard returning its own error in place of the wrapped tool's.
ToolCall_hides_error(c, r) ==
    /\ calls[c].pc = "tool"
    /\ calls' = [calls EXCEPT ![c] =
           [@ EXCEPT !.pc = "done", !.delegated = @ + 1,
                     !.ret = IF r.ok THEN r
                             ELSE [ok |-> FALSE, err |-> Cancelled]]]
    /\ UNCHANGED <<yolo, bash_auto_allow, browser, always, answered_always>>
    /\ UNCHANGED <<path_vars, tool_vars, loop_vars>>

\* self.tool.call(args).await: the wrapped tool runs and its result is the
\* result of the call.
ToolCall(c, r) ==
    /\ calls[c].pc = "tool"
    /\ calls' = [calls EXCEPT ![c] =
           [@ EXCEPT !.pc = "done", !.delegated = @ + 1, !.ret = r]]
    /\ UNCHANGED <<yolo, bash_auto_allow, browser, always, answered_always>>
    /\ UNCHANGED <<path_vars, tool_vars, loop_vars>>

\* The call's result goes back to the engine. The slot keeps, as history,
\* which tool its last call went to and how that call was decided.
Return(c) ==
    /\ calls[c].pc = "done"
    /\ calls' = [calls EXCEPT ![c] =
           [@ EXCEPT !.pc = "idle", !.args = <<>>, !.delegated = 0,
                     !.ret = NoRet]]
    /\ UNCHANGED <<yolo, bash_auto_allow, browser, always, answered_always>>
    /\ UNCHANGED <<path_vars, tool_vars, loop_vars>>

(***************************************************************************)
(* The file tools (src/src/tools.rs)                                       *)
(***************************************************************************)
FileTools ==
    {"read_file", "write_file", "edit_file", "glob_files", "grep_text",
     "list_dir", "make_dir", "remove", "move_file", "copy_file"}

\* The tools with two path arguments, src and dst.
TwoPathTools == {"move_file", "copy_file"}

\* The tools that compile a pattern after resolving their path.
PatternTools == {"glob_files", "grep_text"}

\* The path arguments the model gives the tools, under the root /a.
ToolPaths ==
    { <<>>,
      <<"a">>,
      <<".", ".">>,
      <<".", ".", "/", "a">>,
      <<"a", "/", ".", ".", "/", ".", ".">>,
      <<"/">>,
      <<"/", "a", "/", "a">>,
      <<"/", "a", "a">> }

ToolArgs(t) ==
    IF t \in TwoPathTools THEN ToolPaths \X ToolPaths
    ELSE {<<p>> : p \in ToolPaths}

\* get_path that lets every path through.
get_path_unchecked(cwd, p) ==
    IF cwd.ok THEN [ok |-> TRUE, path |-> join(cwd.path, p), err |-> NoError]
    ELSE [ok |-> FALSE, path |-> <<>>, err |-> IoError]

\* get_path: std::env::current_dir(), its failure an Io error, then
\* validate_path against it.
get_path(cwd, p) ==
    IF cwd.ok THEN validate_path(cwd.path, p)
    ELSE [ok |-> FALSE, path |-> <<>>, err |-> IoError]

\* What std::env::current_dir() may return in a process whose directory is b.
CurrentDir(b) == { [ok |-> TRUE, path |-> b], [ok |-> FALSE, path |-> <<>>] }

PatternError == [kind |-> "Generic", msg |-> "pattern"]

Rd(ps, f) == [kind |-> "read", paths |-> ps, fallible |-> f]
Wr(ps, f) == [kind |-> "write", paths |-> ps, fallible |-> f]

\* The filesystem calls of each tool's body, in order, on the resolved paths:
\* fs::read_to_string, fs::write, the walk of walk_files / WalkBuilder (whose
\* errors are filtered out), fs::create_dir_all, Path::is_dir (false on
\* error) and the fs::remove_*, fs::rename, fs::copy.
IoPlan(t, rs) ==
    CASE t = "read_file" -> << Rd(<<rs[1]>>, TRUE) >>
      [] t = "write_file" -> << Wr(<<rs[1]>>, TRUE) >>
      [] t = "edit_file" -> << Rd(<<rs[1]>>, TRUE), Wr(<<rs[1]>>, TRUE) >>
      [] t = "glob_files" -> << Rd(<<rs[1]>>, FALSE) >>
      [] t = "grep_text" -> << Rd(<<rs[1]>>, FALSE) >>
      [] t = "list_dir" -> << Rd(<<rs[1]>>, FALSE) >>
      [] t = "make_dir" -> << Wr(<<rs[1]>>, TRUE) >>
      [] t = "remove" -> << Rd(<<rs[1]>>, FALSE), Wr(<<rs[1]>>, TRUE) >>
      [] t = "move_file" -> << Wr(<<rs[1], rs[2]>>, TRUE) >>
      [] t = "copy_file" -> << Wr(<<rs[1], rs[2]>>, TRUE) >>

OkRet == [ok |-> TRUE, err |-> NoError]

NoCall ==
    [pc |-> "idle", tool |-> "", args |-> <<>>, resolved |-> <<>>,
     cwd_failed |-> FALSE, ret |-> NoRet]

\* The engine calls a file tool with its arguments.
CallTool(t, as) ==
    /\ tcall.pc = "idle"
    /\ tcall' = [pc |-> "resolve", tool |-> t, args |-> as, resolved |-> <<>>,
                 cwd_failed |-> FALSE, ret |-> NoRet]
    /\ fs_ops' = <<>>
    /\ UNCHANGED <<path_vars, guard_vars, loop_vars>>

\* get_path(&arg)? on the next path argument: on Err the tool returns it.
GetPath(cwd) ==
    /\ tcall.pc = "resolve"
    /\ LET i == Len(tcall.resolved) + 1
           r == get_path(cwd, tcall.args[i])
       IN tcall' =
              IF r.ok
              THEN [tcall EXCEPT !.resolved = Append(@, r.path),
                                 !.pc = IF i = Len(tcall.args) THEN "io"
                                        ELSE "resolve"]
              ELSE [tcall EXCEPT !.pc = "done",
                                 !.cwd_failed = ~cwd.ok,
                                 !.ret = [ok |-> FALSE, err |-> r.err]]
    /\ UNCHANGED fs_ops
    /\ UNCHANGED <<path_vars, guard_vars, loop_vars>>

\* globset::Glob::new / regex::Regex::new fails: the tool returns a Generic
\* error before it walks.
PatternFails ==
    /\ tcall.pc = "io"
    /\ tcall.tool \in PatternTools
    /\ fs_ops = <<>>
    /\ tcall' = [tcall EXCEPT !.pc = "done",
                              !.ret = [ok |-> FALSE, err |-> PatternError]]
    /\ UNCHANGED fs_ops
    /\ UNCHANGED <<path_vars, guard_vars, loop_vars>>

\* The next filesystem call of the body: it succeeds, or fails and the ?
\* returns the Io error.
FsOp(succeeds) ==
    /\ tcall.pc = "io"
    /\ LET plan == IoPlan(tcall.tool, tcall.resolved)
           i == Len(fs_ops) + 1
       IN /\ i <= Len(plan)
          /\ succeeds \/ plan[i].fallible
          /\ fs_ops' = Append(fs_ops, plan[i])
          /\ tcall' =
                IF ~succeeds
                THEN [tcall EXCEPT !.pc = "done",
                                   !.ret = [ok |-> FALSE, err |-> IoError]]
                ELSE IF i = Len(plan)
                THEN [tcall EXCEPT !.pc = "done", !.ret = OkRet]
                ELSE tcall
    /\ UNCHANGED <<path_vars, guard_vars, loop_vars>>

\* edit_file after reading: old is not in the text, or not unique; it returns
\* Ok with a message and writes nothing.
EditNothing ==
    /\ tcall.pc = "io"
    /\ tcall.tool = "edit_file"
    /\ Len(fs_ops) = 1
    /\ tcall' = [tcall EXCEPT !.pc = "done", !.ret = OkRet]
    /\ UNCHANGED fs_ops
    /\ UNCHANGED <<path_vars, guard_vars, loop_vars>>

\* The tool's result goes back to the engine.
ToolReturns ==
    /\ tcall.pc = "done"
    /\ tcall' = NoCall
    /\ fs_ops' = <<>>
    /\ UNCHANGED <<path_vars, guard_vars, loop_vars>>

ToolsFresh ==
    /\ tcall = NoCall
    /\ fs_ops = <<>>

(***************************************************************************)
(* The interactive loop (src/src/agent.rs, run_interactive)                *)
(***************************************************************************)
MaxTurns == 2

\* The texts the loop compares its input with.
PlanCommand == <<"/", "p", "l", "a", "n">>
CodeCommand == <<"/", "c", "o", "d", "e">>
WriteCommand == <<"/", "w", "r", "i", "t", "e">>
GoCommand == <<"/", "g", "o">>
QuitCommand == <<"/", "q">>
ExitCommand == <<"e", "x", "i", "t">>

DefaultFile == <<"p", "l", "a", "n", ".", "m", "d">>

\* "Implement the plan."
ImplementThePlan ==
    <<"I", "m", "p", "l", "e", "m", "e", "n", "t", " ", "t", "h", "e", " ",
      "p", "l", "a", "n", ".">>

\* The text of the constant PLAN_MODE_PROMPT, as one piece.
PLAN_MODE_PROMPT == <<"You are picocode in PLANNING MODE. ...">>

\* "\n\nUser Request: " of the format string.
UserRequest ==
    <<"\n", "\n", "U", "s", "e", "r", " ", "R", "e", "q", "u", "e", "s", "t",
      ":", " ">>

\* The lines Output::get_user_input returns in the model: the commands, a
\* command with text after it, lines that start with "/" and are no command,
\* "/write" with and without a name, a plain request and the empty line.
Lines ==
    { <<>>,
      PlanCommand, CodeCommand, GoCommand, QuitCommand, ExitCommand,
      WriteCommand,
      WriteCommand \o <<" ", "f">>,
      WriteCommand \o <<"f">>,
      PlanCommand \o <<" ">>,
      <<"/", "x">>,
      <<"h", "i">> }

\* The texts of the assistant's responses.
Responses == {"r1", "r2"}

WhiteSpace == {" ", "\t", "\n"}

\* str::starts_with
str_starts_with(s, pre) == Len(pre) <= Len(s) /\ SubSeq(s, 1, Len(pre)) = pre

\* str::strip_prefix(..).unwrap()
strip_prefix(s, pre) == SubSeq(s, Len(pre) + 1, Len(s))

\* str::trim
RECURSIVE trim_start(_)
trim_start(s) ==
    IF s # <<>> /\ Head(s) \in WhiteSpace THEN trim_start(Tail(s)) ELSE s

RECURSIVE trim_end(_)
trim_end(s) ==
    IF s # <<>> /\ s[Len(s)] \in WhiteSpace
    THEN trim_end(SubSeq(s, 1, Len(s) - 1))
    ELSE s

trim(s) == trim_end(trim_start(s))

\* The test for /plan taken on the start of the line.
Command_plan_prefix(input) ==
    IF input = <<>> THEN "empty"
    ELSE IF str_starts_with(input, PlanCommand) THEN "plan"
    ELSE IF input = CodeCommand THEN "code"
    ELSE IF str_starts_with(input, WriteCommand) THEN "write"
    ELSE IF input = GoCommand THEN "go"
    ELSE IF input = QuitCommand \/ input = ExitCommand THEN "exit"
    ELSE "send"

\* The chain of tests without the one for /go.
Command_no_go(input) ==
    IF input = <<>> THEN "empty"
    ELSE IF input = PlanCommand THEN "plan"
    ELSE IF input = CodeCommand THEN "code"
    ELSE IF str_starts_with(input, WriteCommand) THEN "write"
    ELSE IF input = QuitCommand \/ input = ExitCommand THEN "exit"
    ELSE "send"

\* The chain of tests without the one for the exit lines.
Command_no_exit(input) ==
    IF input = <<>> THEN "empty"
    ELSE IF input = PlanCommand THEN "plan"
    ELSE IF input = CodeCommand THEN "code"
    ELSE IF str_starts_with(input, WriteCommand) THEN "write"
    ELSE IF input = GoCommand THEN "go"
    ELSE "send"

\* The chain of tests on the line read, in the order of the loop body.
Command(input) ==
    IF input = <<>> THEN "empty"
    ELSE IF input = PlanCommand THEN "plan"
    ELSE IF input = CodeCommand THEN "code"
    ELSE IF str_starts_with(input, WriteCommand) THEN "write"
    ELSE IF input = GoCommand THEN "go"
    ELSE IF input = QuitCommand \/ input = ExitCommand THEN "exit"
    ELSE "send"

\* The name after /write, plan.md when there is none.
write_filename(input) ==
    LET filename == trim(strip_prefix(input, WriteCommand))
    IN IF filename = <<>> THEN DefaultFile ELSE filename

FileNames == {write_filename(l) : l \in {x \in Lines : Command(x) = "write"}}

NoFile == "(no file)"
Truncated == ""

\* The preamble put before the line in both modes.
prompt_with_mode_always_plan(mode, input) ==
    PLAN_MODE_PROMPT \o UserRequest \o input

\* prompt_with_mode: the match on current_mode before the turn.
prompt_with_mode(mode, input) ==
    IF mode = "Plan" THEN PLAN_MODE_PROMPT \o UserRequest \o input
    ELSE input

\* /go sending its directive through the framing of the mode it came from.
go_input_framed == PLAN_MODE_PROMPT \o UserRequest \o ImplementThePlan

\* The input of the turn /go runs.
go_input == ImplementThePlan

\* /write saving the first response of the session.
last_response_first(rs) == rs[1]

\* responses.last()
last_response(rs) == rs[Len(rs)]

\* The mode commands swapped.
mode_after_swapped(cmd, mode) ==
    CASE cmd = "plan" -> "Code"
      [] cmd = "code" -> "Plan"
      [] cmd = "go" -> "Code"
      [] OTHER -> mode

\* current_mode after a command.
mode_after(cmd, mode) ==
    CASE cmd = "plan" -> "Plan"
      [] cmd = "code" -> "Code"
      [] cmd = "go" -> "Code"
      [] OTHER -> mode

UserMessage(text) == [role |-> "user", text |-> text]
AssistantMessage(text) == [role |-> "assistant", text |-> text]

Reading(l) ==
    /\ loop.pc = "read"
    /\ l \in Lines

\* The engine given a history: it appends the messages the turn exchanged,
\* the input and the response.
with_history(h, input, response) ==
    h \o << UserMessage(input), AssistantMessage(response) >>

\* What a turn is given when prompt is called with None for the history.
NoHistory == << [role |-> "none", text |-> <<>>] >>

\* The turn given an empty history instead of the session's.
StartTurn_fresh_history(input) ==
    Append(turns, [input |-> input, history |-> <<>>])

\* self.prompt(input, Some(&mut history)) is called: the turn goes to the
\* engine with the input and the history of the session.
StartTurn(input) == Append(turns, [input |-> input, history |-> history])

\* if input.is_empty() { continue; }
EmptyLine(l) ==
    /\ Reading(l)
    /\ Command(l) = "empty"
    /\ loop' = [pc |-> "read", line |-> l, notice |-> ""]
    /\ UNCHANGED <<current_mode, history, responses, files, turns>>
    /\ thinking' = stop_thinking(thinking)
    /\ UNCHANGED <<path_vars, guard_vars, tool_vars>>

\* /plan
PlanCmd(l) ==
    /\ Reading(l)
    /\ Command(l) = "plan"
    /\ current_mode' = mode_after("plan", current_mode)
    /\ loop' = [pc |-> "read", line |-> l,
                notice |-> IF current_mode = "Plan" THEN "Already in plan mode"
                           ELSE "Switched to PLAN mode"]
    /\ UNCHANGED <<history, responses, files, turns>>
    /\ thinking' = stop_thinking(thinking)
    /\ UNCHANGED <<path_vars, guard_vars, tool_vars>>

\* /code
CodeCmd(l) ==
    /\ Reading(l)
    /\ Command(l) = "code"
    /\ current_mode' = mode_after("code", current_mode)
    /\ loop' = [pc |-> "read", line |-> l,
                notice |-> IF current_mode = "Code" THEN "Already in code mode"
                           ELSE "Switched to CODE mode"]
    /\ UNCHANGED <<history, responses, files, turns>>
    /\ thinking' = stop_thinking(thinking)
    /\ UNCHANGED <<path_vars, guard_vars, tool_vars>>

\* /write: std::fs::write of the last response succeeds, or fails, leaving the
\* file as it was or created empty, and the ? returns the error.
WriteCmd(l, w) ==
    /\ Reading(l)
    /\ Command(l) = "write"
    /\ IF responses = <<>>
       THEN /\ w = "ok"
            /\ loop' = [pc |-> "read", line |-> l,
                        notice |-> "No response to save yet"]
            /\ UNCHANGED files
       ELSE CASE w = "ok" ->
                 /\ files' = [files EXCEPT ![write_filename(l)] =
                                 last_response(responses)]
                 /\ loop' = [pc |-> "read", line |-> l,
                             notice |-> "Response saved to"]
              [] w = "failed" ->
                 /\ UNCHANGED files
                 /\ loop' = [pc |-> "err", line |-> l, notice |-> ""]
              [] w = "failed_truncated" ->
                 /\ files' = [files EXCEPT ![write_filename(l)] = Truncated]
                 /\ loop' = [pc |-> "err", line |-> l, notice |-> ""]
    /\ UNCHANGED <<current_mode, history, responses, turns>>
    /\ thinking' = stop_thinking(thinking)
    /\ UNCHANGED <<path_vars, guard_vars, tool_vars>>

\* /go
GoCmd(l) ==
    /\ Reading(l)
    /\ Command(l) = "go"
    /\ IF current_mode = "Code"
       THEN /\ loop' = [pc |-> "read", line |-> l,
                        notice |-> "Already in code mode"]
            /\ UNCHANGED <<current_mode, turns>>
       ELSE /\ Len(turns) < MaxTurns
            /\ current_mode' = mode_after("go", current_mode)
            /\ turns' = StartTurn(go_input)
            /\ loop' = [pc |-> "turn", line |-> l,
                        notice |-> "Switched to CODE mode. Implementing the plan..."]
    /\ UNCHANGED <<history, responses, files>>
    /\ thinking' = (IF current_mode = "Code" THEN stop_thinking(thinking)
                    ELSE display_thinking(stop_thinking(thinking)))
    /\ UNCHANGED <<path_vars, guard_vars, tool_vars>>

\* /q, exit: break, and the function returns Ok(()).
ExitCmd(l) ==
    /\ Reading(l)
    /\ Command(l) = "exit"
    /\ loop' = [pc |-> "ok", line |-> l, notice |-> ""]
    /\ UNCHANGED <<current_mode, history, responses, files, turns>>
    /\ thinking' = stop_thinking(thinking)
    /\ UNCHANGED <<path_vars, guard_vars, tool_vars>>

\* Any other line: the turn with the line framed by the mode.
SendLine(l) ==
    /\ Reading(l)
    /\ Command(l) = "send"
    /\ Len(turns) < MaxTurns
    /\ turns' = StartTurn(prompt_with_mode(current_mode, l))
    /\ loop' = [pc |-> "turn", line |-> l, notice |-> ""]
    /\ UNCHANGED <<current_mode, history, responses, files>>
    /\ thinking' = display_thinking(thinking)
    /\ UNCHANGED <<path_vars, guard_vars, tool_vars>>

\* The turn's return putting the session back in Code mode.
TurnReturns_resets_mode(response) ==
    /\ loop.pc = "turn"
    /\ history' = with_history(history, turns[Len(turns)].input, response)
    /\ responses' = Append(responses, response)
    /\ loop' = [loop EXCEPT !.pc = "read"]
    /\ current_mode' = "Code"
    /\ UNCHANGED <<files, turns>>
    /\ thinking' = stop_thinking(thinking)
    /\ UNCHANGED <<path_vars, guard_vars, tool_vars>>

\* self.prompt returns Ok(response): the engine has added the input and the
\* response to the history, and the loop pushes the response.
TurnReturns(response) ==
    /\ loop.pc = "turn"
    /\ history' = with_history(history, turns[Len(turns)].input, response)
    /\ responses' = Append(responses, response)
    /\ loop' = [loop EXCEPT !.pc = "read"]
    /\ UNCHANGED <<current_mode, files, turns>>
    /\ thinking' = stop_thinking(thinking)
    /\ UNCHANGED <<path_vars, guard_vars, tool_vars>>

\* self.prompt returns Err: its ? returns before stop_thinking, and the ? of
\* the loop returns the error from run_interactive. The indicator is as the
\* turn left it: taken down if a tool call, a tool result or a confirmation
\* was displayed during the turn, still shown if none was.
TurnFails(displayed) ==
    /\ loop.pc = "turn"
    /\ loop' = [loop EXCEPT !.pc = "err"]
    /\ thinking' = (IF displayed THEN stop_thinking(thinking) ELSE thinking)
    /\ UNCHANGED <<current_mode, history, responses, files, turns>>
    /\ UNCHANGED <<path_vars, guard_vars, tool_vars>>

\* Ctrl+C or Ctrl+D at the prompt: get_user_input ends the process.
EndOfInput ==
    /\ loop.pc = "read"
    /\ loop' = [loop EXCEPT !.pc = "exited"]
    /\ UNCHANGED <<current_mode, history, responses, files, turns>>
    /\ thinking' = stop_thinking(thinking)
    /\ UNCHANGED <<path_vars, guard_vars, tool_vars>>

\* run_once: self.prompt(&input, None) is called, whatever the input is.
RunOnce(input) ==
    /\ loop.pc = "once"
    /\ input \in Lines
    /\ Len(turns) < MaxTurns
    /\ turns' = Append(turns, [input |-> input, history |-> NoHistory])
    /\ loop' = [pc |-> "once_turn", line |-> input, notice |-> ""]
    /\ thinking' = display_thinking(stop_thinking(thinking))
    /\ UNCHANGED <<current_mode, history, responses, files>>
    /\ UNCHANGED <<path_vars, guard_vars, tool_vars>>

\* run_once: self.prompt returns Ok(response), which is displayed and
\* returned to the caller.
OnceReturns(response) ==
    /\ loop.pc = "once_turn"
    /\ loop' = [loop EXCEPT !.pc = "once"]
    /\ thinking' = stop_thinking(thinking)
    /\ UNCHANGED <<current_mode, history, responses, files, turns>>
    /\ UNCHANGED <<path_vars, guard_vars, tool_vars>>

\* run_once: self.prompt returns Err and the ? returns it.
OnceFails(displayed) ==
    /\ loop.pc = "once_turn"
    /\ loop' = [loop EXCEPT !.pc = "err"]
    /\ thinking' = (IF displayed THEN stop_thinking(thinking) ELSE thinking)
    /\ UNCHANGED <<current_mode, history, responses, files, turns>>
    /\ UNCHANGED <<path_vars, guard_vars, tool_vars>>

\* The agent is used through run_once.
SessionOnce ==
    /\ current_mode = "Code"
    /\ history = <<>>
    /\ responses = <<>>
    /\ files = [f \in FileNames |-> NoFile]
    /\ loop = [pc |-> "once", line |-> <<>>, notice |-> ""]
    /\ turns = <<>>
    /\ thinking = FALSE

SessionFresh ==
    /\ current_mode = "Code"
    /\ history = <<>>
    /\ responses = <<>>
    /\ files = [f \in FileNames |-> NoFile]
    /\ loop = [pc |-> "read", line |-> <<>>, notice |-> ""]
    /\ turns = <<>>
    /\ thinking = FALSE

(***************************************************************************)
(* The tool dispatch hook: LoggingHook and the console's display of a tool *)
(* call and of a tool result. Text is a sequence of characters; a          *)
(* character takes one byte of UTF-8 or, like "é", two.                    *)
(***************************************************************************)
MaxTail == 2

PreviewMax == 50
LineMax == 100
ShowMax == 4

HookChars == {"a", "é", "\n"}

Width(c) == IF c = "é" THEN 2 ELSE 1

\* str::len: the length in bytes.
byte_len(s) ==
    Len(s) + Cardinality({i \in 1..Len(s) : Width(s[i]) = 2})

\* str::is_char_boundary: byte index k is the start of a character or the end
\* of the text.
is_char_boundary(s, k) ==
    \E i \in 0..Len(s) : byte_len(SubSeq(s, 1, i)) = k

\* &s[..k] and &s[k..] where k is a character boundary.
slice_to(s, k) ==
    SubSeq(s, 1, CHOOSE i \in 0..Len(s) : byte_len(SubSeq(s, 1, i)) = k)

slice_from(s, k) ==
    SubSeq(s, 1 + (CHOOSE i \in 0..Len(s) : byte_len(SubSeq(s, 1, i)) = k),
           Len(s))

\* A display that panicked, and one that produced text.
Panic == [panic |-> TRUE, text |-> <<>>]
Shown(t) == [panic |-> FALSE, text |-> t]

\* truncate: the slice &s[..max_len] is taken at a byte index and panics
\* when that index is inside a character.
truncate(s, max_len) ==
    IF byte_len(s) > max_len
    THEN IF is_char_boundary(s, max_len)
         THEN Shown(slice_to(s, max_len) \o <<".", ".", ".">>)
         ELSE Panic
    ELSE Shown(s)

\* s.replace('\n', " ")
replace_newline(s) ==
    [i \in 1..Len(s) |-> IF s[i] = "\n" THEN " " ELSE s[i]]

\* Value::to_string of a JSON string: quoted, a newline written as \n.
RECURSIVE escape(_)
escape(s) ==
    IF s = <<>> THEN <<>>
    ELSE IF Len(s) = 1
         THEN (IF s[1] = "\n" THEN <<"\\", "n">> ELSE s)
         ELSE LET h == Len(s) \div 2
              IN escape(SubSeq(s, 1, h)) \o escape(SubSeq(s, h + 1, Len(s)))

to_json_string(s) == <<"\"">> \o escape(s) \o <<"\"">>

\* The argument strings of the model: an object whose first value is the
\* string text, the empty object, and text that is not JSON.
ArgShapes == {"object", "empty_object", "not_json"}

\* serde_json::from_str(args).unwrap_or(Value::String(args.to_string()))
parse_args(a) ==
    CASE a.shape = "object" -> [kind |-> "Object", values |-> <<a.text>>]
      [] a.shape = "empty_object" -> [kind |-> "Object", values |-> <<>>]
      [] OTHER -> [kind |-> "String", values |-> <<a.text>>]

\* get_preview: the first value of an object, or the value written as JSON,
\* on one line and truncated.
get_preview(v) ==
    LET s == IF v.kind = "Object"
             THEN (IF v.values = <<>> THEN <<>> ELSE v.values[1])
             ELSE to_json_string(v.values[1])
    IN truncate(replace_newline(s), PreviewMax)

Upper(c) == CASE c = "a" -> "A" [] c = "é" -> "É" [] OTHER -> c

\* display_tool_call, the capitalised name: the first character in upper
\* case and &name[1..], a slice at byte 1.
capitalized_name(name) ==
    IF name = <<>> THEN Shown(name)
    ELSE IF is_char_boundary(name, 1)
         THEN Shown(<<Upper(name[1])>> \o slice_from(name, 1))
         ELSE Panic

\* ConsoleOutput::display_tool_call: what is printed, unless it panics.
display_tool_call(name, v) ==
    LET preview == get_preview(v)
        cap == capitalized_name(name)
    IN IF preview.panic \/ cap.panic
       THEN [panic |-> TRUE, name |-> <<>>, text |-> <<>>]
       ELSE [panic |-> FALSE, name |-> cap.text, text |-> preview.text]

\* str::split('\n'): the pieces between the newlines of s.
split_newline(s) ==
    LET nl == {i \in 1..Len(s) : s[i] = "\n"}
        at(k) == IF k = 0 THEN 0
                 ELSE IF k > Cardinality(nl) THEN Len(s) + 1
                 ELSE CHOOSE i \in nl :
                          Cardinality({j \in nl : j < i}) = k - 1
    IN [k \in 1..(Cardinality(nl) + 1) |->
           SubSeq(s, at(k - 1) + 1, at(k) - 1)]

\* str::lines: the pieces between newlines, without a last empty one.
lines(s) ==
    LET ps == split_newline(s)
    IN IF ps[Len(ps)] = <<>> THEN SubSeq(ps, 1, Len(ps) - 1) ELSE ps

RECURSIVE join_lines(_)
join_lines(ls) ==
    IF ls = <<>> THEN <<>>
    ELSE IF Len(ls) = 1 THEN ls[1]
    ELSE ls[1] \o <<"\n">> \o join_lines(Tail(ls))

\* ConsoleOutput::display_tool_result of a result whose text, unquoted and
\* without its error prefixes, is r.text: every line of an error, or the
\* first ShowMax lines, each truncated.
display_tool_result(r) ==
    LET ls == lines(r.text)
        n == IF r.error \/ Len(ls) <= ShowMax THEN Len(ls) ELSE ShowMax
        shown == [i \in 1..n |->
                     IF r.error THEN Shown(ls[i]) ELSE truncate(ls[i], LineMax)]
    IN IF \E i \in 1..n : shown[i].panic
       THEN Panic
       ELSE Shown(join_lines([i \in 1..n |-> shown[i].text]))

\* The texts of the model: up to MaxTail characters after a run of "a" that
\* is empty or ends one byte before a truncation limit.
Fill(n) == [i \in 1..n |-> "a"]

Tails == UNION {[1..k -> HookChars] : k \in 0..MaxTail}

Texts == { Fill(n) \o t : n \in {0, PreviewMax - 1, LineMax - 1}, t \in Tails }

ToolNames == { <<>>, <<"a">>, <<"a", "a">>, <<"é", "a">> }

HookPanicked == [pc |-> "panicked", name |-> <<>>, text |-> <<>>]

\* LoggingHook::on_tool_call: the engine is about to run a tool call.
OnToolCall(name, args) ==
    /\ hook.pc \in {"idle", "resulted"}
    /\ LET d == display_tool_call(name, parse_args(args))
       IN hook' = IF d.panic THEN HookPanicked
                  ELSE [pc |-> "called", name |-> d.name, text |-> d.text]
    /\ thinking' = stop_thinking(thinking)
    /\ UNCHANGED <<current_mode, history, responses, files, loop, turns>>
    /\ UNCHANGED <<path_vars, guard_vars, tool_vars, eng, io_vars>>

\* LoggingHook::on_tool_result: the tool call has returned its result.
OnToolResult(result) ==
    /\ hook.pc = "called"
    /\ LET d == display_tool_result(result)
       IN hook' = IF d.panic THEN HookPanicked
                  ELSE [pc |-> "resulted", name |-> hook.name, text |-> d.text]
    /\ thinking' = stop_thinking(thinking)
    /\ UNCHANGED <<current_mode, history, responses, files, loop, turns>>
    /\ UNCHANGED <<path_vars, guard_vars, tool_vars, eng, io_vars>>

(***************************************************************************)
(* A turn with the engine: the rounds in which the model requests a tool   *)
(* call, the call runs through its guard, and its result goes back to the  *)
(* model, until the model answers with text or the engine fails.           *)
(***************************************************************************)
MaxRounds == 2

\* The tools the model requests in a turn, and their arguments.
TurnTools == {"remove", "bash", "read_file"}
TurnArgs == {<<"a">>, <<"b">>}

\* The lines the operator types between the turns.
TurnLines ==
    { <<>>, PlanCommand, CodeCommand, GoCommand, WriteCommand, ExitCommand,
      <<"h", "i">> }

\* The engine at the start of a turn: no round made, no result fed back.
engine_start == [rounds |-> 0, fed |-> <<>>]

\* The engine runs a tool call the model requested: one more round.
engine_round(e) == [e EXCEPT !.rounds = @ + 1]

\* The engine gives the result of a tool call, Ok or Err, back to the model
\* as the tool's result.
engine_feed(e, ret) == [e EXCEPT !.fed = Append(@, ret)]

\* A line that is not a command: the turn starts.
SendLineTurn(l) ==
    /\ SendLine(l)
    /\ eng' = engine_start
    /\ UNCHANGED <<hook, io_vars>>

\* /go: in Plan mode the turn starts.
GoTurn(l) ==
    /\ GoCmd(l)
    /\ eng' = (IF current_mode = "Plan" THEN engine_start ELSE eng)
    /\ UNCHANGED <<hook, io_vars>>

\* The model requests a call of a guarded tool and the engine makes it.
ModelRequestsGuarded(t, a) ==
    /\ loop.pc = "turn"
    /\ NoneInFlight
    /\ eng.rounds < MaxRounds
    /\ InvokeGuarded(1, t, a)
    /\ eng' = engine_round(eng)
    /\ UNCHANGED <<hook, io_vars>>

\* The model requests a call of a tool registered without a guard.
ModelRequestsPlain(t, a) ==
    /\ loop.pc = "turn"
    /\ NoneInFlight
    /\ eng.rounds < MaxRounds
    /\ InvokePlain(1, t, a)
    /\ eng' = engine_round(eng)
    /\ UNCHANGED <<hook, io_vars>>

\* The call has returned: its result is fed back to the model.
ResultFedBack ==
    /\ Return(1)
    /\ eng' = engine_feed(eng, calls[1].ret)
    /\ UNCHANGED <<hook, io_vars>>

\* The model answers with text: the turn returns it.
ModelAnswers(response) ==
    /\ NoneInFlight
    /\ TurnReturns(response)
    /\ UNCHANGED <<engine_vars, io_vars>>

\* The engine fails: the turn returns the error.
EngineFails(displayed) ==
    /\ NoneInFlight
    /\ TurnFails(displayed)
    /\ UNCHANGED <<engine_vars, io_vars>>

(***************************************************************************)
(* Output::confirm: the operator's line read from the terminal and the     *)
(* Confirmation it is mapped to.                                           *)
(***************************************************************************)
MaxAnswerLen == 2

AnswerChars == {"y", "Y", "s", "n", " "}

AnswerWords ==
    { <<"y", "e", "s">>, <<"Y", "e", "s">>, <<"Y", "E", "S">>,
      <<"s", "e", "s", "s", "i", "o", "n">>,
      <<"S", "E", "S", "S", "I", "O", "N">>,
      <<"n", "o">>, <<"y", "e", "s", " ">>, <<" ", "S">>, <<"y", "e">> }

\* The lines the operator types at the prompt.
AnswerLines ==
    UNION {[1..k -> AnswerChars] : k \in 0..MaxAnswerLen} \cup AnswerWords

\* What a read of the terminal gives: a line, the end of the input, an
\* interrupt (Ctrl+C at the line editor), or another error.
NoLine(kind) == [kind |-> kind, text |-> <<>>]

EditorReads ==
    {[kind |-> "line", text |-> l] : l \in AnswerLines}
        \cup {NoLine("eof"), NoLine("interrupt"), NoLine("error")}

StdinReads ==
    {[kind |-> "line", text |-> l] : l \in AnswerLines}
        \cup {NoLine("eof"), NoLine("error")}

LowerCase(c) ==
    CASE c = "Y" -> "y" [] c = "E" -> "e" [] c = "S" -> "s"
      [] c = "I" -> "i" [] c = "O" -> "o" [] c = "N" -> "n"
      [] OTHER -> c

\* str::to_lowercase
to_lowercase(s) == [i \in 1..Len(s) |-> LowerCase(s[i])]

\* confirm, the match on the lowercased input.
match_answer(s) ==
    IF s \in {<<"y">>, <<"y", "e", "s">>} THEN "Yes"
    ELSE IF s \in {<<"s">>, <<"s", "e", "s", "s", "i", "o", "n">>}
         THEN "Always"
         ELSE "No"

\* std::io::stdin().read_line(&mut input) with its result dropped: the line,
\* or nothing at the end of the input or on an error.
read_line(r) == IF r.kind = "line" THEN r.text ELSE <<>>

\* ConsoleOutput::fallback_input
fallback_input(r) == trim(read_line(r))

\* The confirmation returned, or the process ended by std::process::exit(0).
Answer(a) == [exit |-> FALSE, answer |-> a]
Exit0 == [exit |-> TRUE, answer |-> "none"]

\* ConsoleOutput::confirm: get_user_input reads with the line editor, or with
\* fallback_input when there is no editor or the editor fails; r2 is what the
\* fallback reads.
console_confirm(editor, r, r2) ==
    IF ~editor THEN Answer(match_answer(to_lowercase(fallback_input(r2))))
    ELSE CASE r.kind = "line" -> Answer(match_answer(to_lowercase(r.text)))
           [] r.kind \in {"eof", "interrupt"} -> Exit0
           [] OTHER -> Answer(match_answer(to_lowercase(fallback_input(r2))))

\* QuietOutput::confirm
quiet_confirm(r) == Answer(match_answer(to_lowercase(trim(read_line(r)))))

Asked(out, r, c) ==
    [pc |-> IF c.exit THEN "exited" ELSE "answered",
     output |-> out, typed |-> r, answer |-> c.answer]

\* ConsoleOutput::confirm is called and returns, or ends the process.
ConsoleConfirm(editor, r, r2) ==
    /\ asked.pc # "exited"
    /\ editor => r.kind = "error" \/ r2 = r
    /\ ~editor => r2 = r
    /\ asked' = Asked(IF editor /\ r.kind # "error" THEN "console"
                      ELSE "console_fallback",
                      IF editor /\ r.kind = "error" THEN r2 ELSE r,
                      console_confirm(editor, r, r2))
    /\ thinking' = stop_thinking(thinking)
    /\ UNCHANGED <<current_mode, history, responses, files, loop, turns>>
    /\ UNCHANGED <<path_vars, guard_vars, tool_vars, engine_vars, edit>>

\* QuietOutput::confirm is called and returns.
QuietConfirm(r) ==
    /\ asked.pc # "exited"
    /\ asked' = Asked("quiet", r, quiet_confirm(r))
    /\ thinking' = stop_thinking(thinking)
    /\ UNCHANGED <<current_mode, history, responses, files, loop, turns>>
    /\ UNCHANGED <<path_vars, guard_vars, tool_vars, engine_vars, edit>>

(***************************************************************************)
(* edit_file (src/src/tools.rs)                                            *)
(***************************************************************************)
MaxTextLen == 3
MaxOldLen == 2

EditChars == {"a", "b"}

\* The contents of the file, and the old and new strings of the call.
EditTexts == UNION {[1..k -> EditChars] : k \in 0..MaxTextLen}
EditStrings == UNION {[1..k -> EditChars] : k \in 0..MaxOldLen}

\* The text has pat at index i.
HasAt(text, pat, i) ==
    /\ i + Len(pat) - 1 <= Len(text)
    /\ SubSeq(text, i, i + Len(pat) - 1) = pat

\* str::contains
contains(text, pat) == \E i \in 1..(Len(text) + 1) : HasAt(text, pat, i)

\* str::match_indices: the matches from the left, each search starting
\* where the match before it ended; the empty pattern matches at every
\* character boundary.
RECURSIVE match_indices(_, _, _)
match_indices(text, pat, from) ==
    IF from + Len(pat) - 1 > Len(text) THEN <<>>
    ELSE IF HasAt(text, pat, from)
    THEN <<from>> \o match_indices(text, pat,
                        from + (IF pat = <<>> THEN 1 ELSE Len(pat)))
    ELSE match_indices(text, pat, from + 1)

\* str::matches(..).count()
matches_count(text, pat) == Len(match_indices(text, pat, 1))

\* The loop of str::replacen over the matches: the text between the matches
\* with to in the place of each match.
RECURSIVE replace_at(_, _, _, _, _)
replace_at(text, pat, to, ms, last) ==
    IF ms = <<>> THEN SubSeq(text, last, Len(text))
    ELSE SubSeq(text, last, Head(ms) - 1) \o to
            \o replace_at(text, pat, to, Tail(ms), Head(ms) + Len(pat))

\* str::replacen: the first count matches replaced.
replacen(text, pat, to, count) ==
    LET ms == match_indices(text, pat, 1)
        n == IF count < Len(ms) THEN count ELSE Len(ms)
    IN replace_at(text, pat, to, SubSeq(ms, 1, n), 1)

\* str::replace: every match replaced.
replace(text, pat, to) ==
    replace_at(text, pat, to, match_indices(text, pat, 1), 1)

NotFound == "error: old_string not found"

\* format!("error: old_string appears {count} times, ..")
NotUnique(count) ==
    "error: old_string appears " \o ToString(count)
        \o " times, must be unique (use all=true)"

\* The outcomes of the two filesystem calls of edit_file.
EditIo == {"ok", "read_fails", "write_fails"}

\* edit_file on the contents of the file at the validated path: the contents
\* afterwards and the value returned.
edit_file(text, old, new, all, io) ==
    IF io = "read_fails" THEN [text |-> text, ok |-> FALSE, out |-> "IO error"]
    ELSE IF ~contains(text, old)
    THEN [text |-> text, ok |-> TRUE, out |-> NotFound]
    ELSE LET count == matches_count(text, old) IN
         IF ~all /\ count > 1
         THEN [text |-> text, ok |-> TRUE, out |-> NotUnique(count)]
         ELSE IF io = "write_fails"
         THEN [text |-> text, ok |-> FALSE, out |-> "IO error"]
         ELSE [text |-> IF all THEN replace(text, old, new)
                        ELSE replacen(text, old, new, 1),
               ok |-> TRUE, out |-> "ok"]

NoQuestion ==
    [pc |-> "idle", output |-> "", typed |-> <<>>, answer |-> "none"]

NoEdit ==
    [pc |-> "idle", text |-> <<>>, old |-> <<>>, new |-> <<>>,
     all |-> FALSE, ok |-> FALSE, out |-> ""]

\* No confirmation has been asked and edit_file has not been called.
IoIdle ==
    /\ asked = NoQuestion
    /\ edit = NoEdit

\* The model calls edit_file on a file with the contents edit.text.
EditFile(old, new, all, io) ==
    /\ edit.pc = "idle"
    /\ LET r == edit_file(edit.text, old, new, all, io)
       IN edit' = [pc |-> "done", text |-> r.text, old |-> old, new |-> new,
                   all |-> all, ok |-> r.ok, out |-> r.out]
    /\ UNCHANGED <<path_vars, guard_vars, tool_vars, loop_vars, engine_vars,
                   asked>>

\* No turn is with the engine and no callback of the hook is running.
EngineIdle ==
    /\ eng = engine_start
    /\ hook = [pc |-> "idle", name |-> <<>>, text |-> <<>>]

(***************************************************************************)
(* Specifications                                                          *)
(***************************************************************************)
GuardsFresh ==
    /\ always = [g \in GuardedTools |-> FALSE]
    /\ calls = [c \in CallIds |-> Idle]
    /\ answered_always = {}

\* validate_path over every root and requested path within the bounds.
InitPath ==
    /\ base \in Roots
    /\ path \in StringsUpTo(MaxPathLen)
    /\ vp = NotRun
    /\ yolo = FALSE
    /\ bash_auto_allow = <<>>
    /\ browser = FALSE
    /\ GuardsFresh
    /\ ToolsFresh
    /\ SessionFresh
    /\ EngineIdle
    /\ IoIdle

NextPath == ValidatePath /\ UNCHANGED <<engine_vars, io_vars>>

SpecPath == InitPath /\ [][NextPath]_vars

\* A session whose engine runs its tool calls one after the other, as it does
\* for CodeAgent::prompt, which builds the request with multi_turn and a hook
\* and leaves the engine's tool concurrency at its default of one.
Init ==
    /\ base = <<"/">>
    /\ path = <<>>
    /\ vp = NotRun
    /\ yolo \in BOOLEAN
    /\ bash_auto_allow \in AutoAllowLists
    /\ browser \in BOOLEAN
    /\ GuardsFresh
    /\ ToolsFresh
    /\ SessionFresh
    /\ EngineIdle
    /\ IoIdle

Next ==
    \/ \E t \in GuardedTools, a \in Cmds :
          NoneInFlight /\ InvokeGuarded(1, t, a) /\ UNCHANGED <<engine_vars, io_vars>>
    \/ \E t \in PlainTools, a \in Cmds :
          NoneInFlight /\ InvokePlain(1, t, a) /\ UNCHANGED <<engine_vars, io_vars>>
    \/ \E c \in CallIds, ans \in Confirmations : Confirm(c, ans)
          /\ UNCHANGED <<engine_vars, io_vars>>
    \/ \E c \in CallIds, r \in ToolOutcomes : ToolCall(c, r)
          /\ UNCHANGED <<engine_vars, io_vars>>
    \/ \E c \in CallIds : Return(c) /\ UNCHANGED <<engine_vars, io_vars>>

Spec == Init /\ [][Next]_vars

\* A session whose engine keeps up to MaxInFlight calls through the guards
\* in flight at once (the engine's tool concurrency raised above its default
\* of one). The calls go to three of the guarded tools, the wrapped tools
\* succeed, and their arguments are the two one-letter commands.
ConcTools == {"make_dir", "remove", "bash"}

NextConc ==
    \/ \E c \in CallIds, t \in ConcTools, a \in {<<"a">>, <<"b">>} :
          InvokeGuarded(c, t, a) /\ UNCHANGED <<engine_vars, io_vars>>
    \/ \E c \in CallIds, ans \in Confirmations : Confirm(c, ans)
          /\ UNCHANGED <<engine_vars, io_vars>>
    \/ \E c \in CallIds : ToolCall(c, [ok |-> TRUE, err |-> NoError])
          /\ UNCHANGED <<engine_vars, io_vars>>
    \/ \E c \in CallIds : Return(c) /\ UNCHANGED <<engine_vars, io_vars>>

SpecConc == Init /\ [][NextConc]_vars

\* Guard::call in the steps a thread of the runtime takes it in: the load of
\* the flag and the call of confirm are two operations, and another call's
\* store may come between them.
GuardChecks(c, t, a) ==
    /\ calls[c].pc = "idle"
    /\ t \in Registered(browser) \cap GuardedTools
    /\ LET auto == should_auto_approve(t, a, bash_auto_allow)
           ask == needs_confirm(yolo, always[t], auto)
       IN calls' = [calls EXCEPT ![c] =
              [pc |-> IF ask THEN "checked" ELSE "tool",
               tool |-> t, args |-> a, prompted |-> FALSE,
               answer |-> "none", delegated |-> 0, ret |-> NoRet]]
    /\ UNCHANGED <<yolo, bash_auto_allow, browser, always, answered_always>>
    /\ UNCHANGED <<path_vars, tool_vars, loop_vars>>

\* self.output.confirm(..) is called: the prompt is presented.
GuardPrompts(c) ==
    /\ calls[c].pc = "checked"
    /\ calls' = [calls EXCEPT ![c] = [@ EXCEPT !.pc = "confirm",
                                               !.prompted = TRUE]]
    /\ UNCHANGED <<yolo, bash_auto_allow, browser, always, answered_always>>
    /\ UNCHANGED <<path_vars, tool_vars, loop_vars>>

NextRace ==
    \/ \E c \in CallIds, t \in ConcTools, a \in {<<"a">>, <<"b">>} :
          GuardChecks(c, t, a) /\ UNCHANGED <<engine_vars, io_vars>>
    \/ \E c \in CallIds : GuardPrompts(c)
          /\ UNCHANGED <<engine_vars, io_vars>>
    \/ \E c \in CallIds, ans \in Confirmations : Confirm(c, ans)
          /\ UNCHANGED <<engine_vars, io_vars>>
    \/ \E c \in CallIds : ToolCall(c, [ok |-> TRUE, err |-> NoError])
          /\ UNCHANGED <<engine_vars, io_vars>>
    \/ \E c \in CallIds : Return(c) /\ UNCHANGED <<engine_vars, io_vars>>

SpecRace == Init /\ [][NextRace]_vars

\* The file tools called one at a time in a process whose directory is /a.
InitTools ==
    /\ base = <<"/", "a">>
    /\ path = <<>>
    /\ vp = NotRun
    /\ yolo = FALSE
    /\ bash_auto_allow = <<>>
    /\ browser = FALSE
    /\ GuardsFresh
    /\ ToolsFresh
    /\ SessionFresh
    /\ EngineIdle
    /\ IoIdle

NextTools ==
    \/ \E t \in FileTools : \E as \in ToolArgs(t) : CallTool(t, as)
          /\ UNCHANGED <<engine_vars, io_vars>>
    \/ \E cwd \in CurrentDir(base) : GetPath(cwd) /\ UNCHANGED <<engine_vars, io_vars>>
    \/ PatternFails /\ UNCHANGED <<engine_vars, io_vars>>
    \/ \E succeeds \in BOOLEAN : FsOp(succeeds) /\ UNCHANGED <<engine_vars, io_vars>>
    \/ EditNothing /\ UNCHANGED <<engine_vars, io_vars>>
    \/ ToolReturns /\ UNCHANGED <<engine_vars, io_vars>>

SpecTools == InitTools /\ [][NextTools]_vars

\* The guarded file tools called one at a time through their guards: the
\* guard decides, the wrapped tool's body runs as in SpecTools, and what it
\* returns is what the guard's call returns.
GuardedFileTools == FileTools \cap GuardedTools

\* self.tool.call(args) is entered: the wrapped tool gets the guard's args.
WrappedToolStarts ==
    /\ calls[1].pc = "tool"
    /\ tcall.pc = "idle"
    /\ CallTool(calls[1].tool, calls[1].args)

\* self.tool.call(args).await is over: the guard's call returns its value.
WrappedToolReturns ==
    /\ tcall.pc = "done"
    /\ ToolCall(1, tcall.ret)

\* The wrapped tool's call is dropped once the guard has returned its value.
WrappedToolDone ==
    /\ calls[1].pc = "done"
    /\ ToolReturns

GuardReturns ==
    /\ tcall.pc = "idle"
    /\ Return(1)

InitGuarded ==
    /\ base = <<"/", "a">>
    /\ path = <<>>
    /\ vp = NotRun
    /\ yolo \in BOOLEAN
    /\ bash_auto_allow = <<>>
    /\ browser = FALSE
    /\ GuardsFresh
    /\ ToolsFresh
    /\ SessionFresh
    /\ EngineIdle
    /\ IoIdle

NextGuarded ==
    \/ \E t \in GuardedFileTools : \E as \in ToolArgs(t) :
          NoneInFlight /\ InvokeGuarded(1, t, as)
             /\ UNCHANGED <<engine_vars, io_vars>>
    \/ \E ans \in Confirmations : Confirm(1, ans)
          /\ UNCHANGED <<engine_vars, io_vars>>
    \/ WrappedToolStarts /\ UNCHANGED <<engine_vars, io_vars>>
    \/ \E cwd \in CurrentDir(base) : GetPath(cwd)
          /\ UNCHANGED <<engine_vars, io_vars>>
    \/ \E succeeds \in BOOLEAN : FsOp(succeeds)
          /\ UNCHANGED <<engine_vars, io_vars>>
    \/ WrappedToolReturns /\ UNCHANGED <<engine_vars, io_vars>>
    \/ WrappedToolDone /\ UNCHANGED <<engine_vars, io_vars>>
    \/ GuardReturns /\ UNCHANGED <<engine_vars, io_vars>>

SpecGuarded == InitGuarded /\ [][NextGuarded]_vars

\* An interactive session whose turns go through rounds of tool calls:
\* the operator's lines, and in each turn up to MaxRounds calls of the
\* model's, each through its guard and with the operator's answer.
InitTurn ==
    /\ base = <<"/">>
    /\ path = <<>>
    /\ vp = NotRun
    /\ yolo \in BOOLEAN
    /\ bash_auto_allow \in { <<>>, << <<"^", "a">> >> }
    /\ browser = FALSE
    /\ GuardsFresh
    /\ ToolsFresh
    /\ SessionFresh
    /\ EngineIdle
    /\ IoIdle

NextTurn ==
    \/ \E l \in TurnLines : EmptyLine(l) /\ UNCHANGED <<engine_vars, io_vars>>
    \/ \E l \in TurnLines : PlanCmd(l) /\ UNCHANGED <<engine_vars, io_vars>>
    \/ \E l \in TurnLines : CodeCmd(l) /\ UNCHANGED <<engine_vars, io_vars>>
    \/ \E l \in TurnLines : WriteCmd(l, "ok") /\ UNCHANGED <<engine_vars, io_vars>>
    \/ \E l \in TurnLines : GoTurn(l)
    \/ \E l \in TurnLines : ExitCmd(l) /\ UNCHANGED <<engine_vars, io_vars>>
    \/ \E l \in TurnLines : SendLineTurn(l)
    \/ \E t \in TurnTools \cap GuardedTools, a \in TurnArgs :
          ModelRequestsGuarded(t, a)
    \/ \E t \in TurnTools \cap PlainTools, a \in TurnArgs :
          ModelRequestsPlain(t, a)
    \/ \E ans \in Confirmations : Confirm(1, ans) /\ UNCHANGED <<engine_vars, io_vars>>
    \/ \E r \in ToolOutcomes : ToolCall(1, r) /\ UNCHANGED <<engine_vars, io_vars>>
    \/ ResultFedBack
    \/ ModelAnswers("r1")
    \/ \E displayed \in BOOLEAN : EngineFails(displayed)

SpecTurn == InitTurn /\ [][NextTurn]_vars

\* Output::confirm asked again and again, with every line and every end of
\* the reads.
InitConfirm ==
    /\ base = <<"/">>
    /\ path = <<>>
    /\ vp = NotRun
    /\ yolo = FALSE
    /\ bash_auto_allow = <<>>
    /\ browser = FALSE
    /\ GuardsFresh
    /\ ToolsFresh
    /\ SessionFresh
    /\ EngineIdle
    /\ IoIdle

NextConfirm ==
    \/ \E editor \in BOOLEAN, r \in EditorReads, r2 \in StdinReads :
          ConsoleConfirm(editor, r, r2)
    \/ \E r \in StdinReads : QuietConfirm(r)

SpecConfirm == InitConfirm /\ [][NextConfirm]_vars

\* edit_file called once on every file of the model with every old and new
\* string.
InitEdit ==
    /\ base = <<"/">>
    /\ path = <<>>
    /\ vp = NotRun
    /\ yolo = FALSE
    /\ bash_auto_allow = <<>>
    /\ browser = FALSE
    /\ GuardsFresh
    /\ ToolsFresh
    /\ SessionFresh
    /\ EngineIdle
    /\ asked = NoQuestion
    /\ edit \in {[NoEdit EXCEPT !.text = t] : t \in EditTexts}

NextEdit ==
    \E old \in EditStrings, new \in EditStrings, all \in BOOLEAN,
       io \in EditIo : EditFile(old, new, all, io)

SpecEdit == InitEdit /\ [][NextEdit]_vars

\* The hook called by the engine for one tool call after the other, with
\* every name, argument string and result of the model.
InitHook ==
    /\ base = <<"/">>
    /\ path = <<>>
    /\ vp = NotRun
    /\ yolo = FALSE
    /\ bash_auto_allow = <<>>
    /\ browser = FALSE
    /\ GuardsFresh
    /\ ToolsFresh
    /\ SessionFresh
    /\ EngineIdle
    /\ IoIdle

NextHook ==
    \/ \E name \in ToolNames, shape \in ArgShapes, text \in Texts :
          OnToolCall(name, [shape |-> shape, text |-> text])
    \/ \E error \in BOOLEAN, text \in Texts :
          OnToolResult([error |-> error, text |-> text])

SpecHook == InitHook /\ [][NextHook]_vars

\* An interactive session: the lines the operator types and the turns the
\* engine runs for them, up to MaxTurns turns; or an agent used through
\* run_once, up to MaxTurns times.
InitSession ==
    /\ base = <<"/", "a">>
    /\ path = <<>>
    /\ vp = NotRun
    /\ yolo = FALSE
    /\ bash_auto_allow = <<>>
    /\ browser = FALSE
    /\ GuardsFresh
    /\ ToolsFresh
    /\ (SessionFresh \/ SessionOnce)
    /\ EngineIdle
    /\ IoIdle

NextSession ==
    \/ \E l \in Lines : EmptyLine(l) /\ UNCHANGED <<engine_vars, io_vars>>
    \/ \E l \in Lines : PlanCmd(l) /\ UNCHANGED <<engine_vars, io_vars>>
    \/ \E l \in Lines : CodeCmd(l) /\ UNCHANGED <<engine_vars, io_vars>>
    \/ \E l \in Lines, w \in {"ok", "failed", "failed_truncated"} :
          WriteCmd(l, w) /\ UNCHANGED <<engine_vars, io_vars>>
    \/ \E l \in Lines : GoCmd(l) /\ UNCHANGED <<engine_vars, io_vars>>
    \/ \E l \in Lines : ExitCmd(l) /\ UNCHANGED <<engine_vars, io_vars>>
    \/ \E l \in Lines : SendLine(l) /\ UNCHANGED <<engine_vars, io_vars>>
    \/ \E response \in Responses : TurnReturns(response)
          /\ UNCHANGED <<engine_vars, io_vars>>
    \/ \E displayed \in BOOLEAN : TurnFails(displayed) /\ UNCHANGED <<engine_vars, io_vars>>
    \/ EndOfInput /\ UNCHANGED <<engine_vars, io_vars>>
    \/ \E l \in Lines : RunOnce(l) /\ UNCHANGED <<engine_vars, io_vars>>
    \/ \E response \in Responses : OnceReturns(response)
          /\ UNCHANGED <<engine_vars, io_vars>>
    \/ \E displayed \in BOOLEAN : OnceFails(displayed) /\ UNCHANGED <<engine_vars, io_vars>>

SpecSession == InitSession /\ [][NextSession]_vars

(***************************************************************************)
(* Properties of validate_path, checked under SpecPath.                    *)
(***************************************************************************)
Ran == vp # NotRun

Work == <<"/", "a">>

\* q is the text of r, or continues it after a separator.
TextUnder(q, r) ==
    \/ q = r
    \/ /\ Len(q) > Len(r)
       /\ SubSeq(q, 1, Len(r)) = r
       /\ (r[Len(r)] = "/" \/ q[Len(r) + 1] = "/")

\* The text q has the whole piece x between separators.
HasPiece(q, x) ==
    \E i \in 1..Len(q) :
        /\ i + Len(x) - 1 <= Len(q)
        /\ SubSeq(q, i, i + Len(x) - 1) = x
        /\ (i = 1 \/ q[i - 1] = "/")
        /\ (i + Len(x) - 1 = Len(q) \/ q[i + Len(x)] = "/")

Escapes ==
    { <<".", ".">>,
      <<".", ".", "/", ".", ".">>,
      <<".", ".", "/", "a", "a">>,
      <<"a", "/", ".", ".", "/", ".", ".">> }

\* C1 (containment): for every root and every requested path, validate_path
\* returns either the access-denied error or a path that is the root or
\* nested under it, with no parent piece left in it; requests that climb out
\* of the root /a are errors.
C1_Containment ==
    Ran =>
        /\ \/ ~vp.ok /\ vp.err = AccessDenied
           \/ /\ vp.ok
              /\ TextUnder(vp.path, base)
              /\ ~HasPiece(vp.path, ParentDir)
        /\ (base = Work /\ path \in Escapes) => ~vp.ok

C1_Witness ==
    /\ Ran
    /\ base = Work
    /\ path = <<"a", "/", ".", ".", "/", ".", ".">>
    /\ ~vp.ok

\* The joined text as a list of pieces, empty pieces dropped.
NonEmptyPieces(s) == SelectSeq(SplitSep(s), LAMBDA x : x # <<>>)

JoinedPieces(b, p) ==
    IF is_absolute(p) THEN NonEmptyPieces(p)
    ELSE NonEmptyPieces(b) \o NonEmptyPieces(p)

\* The walk the specification describes, on a list of segments.
RECURSIVE LexWalk(_, _)
LexWalk(pieces, acc) ==
    IF pieces = <<>> THEN acc
    ELSE LexWalk(Tail(pieces),
                 IF Head(pieces) = ParentDir
                 THEN (IF acc = <<>> THEN acc ELSE SubSeq(acc, 1, Len(acc) - 1))
                 ELSE IF Head(pieces) = CurDir THEN acc
                 ELSE Append(acc, Head(pieces)))

RECURSIVE Render(_)
Render(segs) ==
    IF segs = <<>> THEN <<"/">>
    ELSE IF Len(segs) = 1 THEN <<"/">> \o segs[1]
    ELSE Render(SubSeq(segs, 1, Len(segs) - 1)) \o <<"/">> \o segs[Len(segs)]

\* C10 (lexical normalisation): an accepted path is the left-to-right walk
\* of the joined path's segments, where ".." removes the last accumulated
\* segment (nothing at the filesystem root), "." is dropped and any other
\* segment is appended; it has no "." or ".." piece. Under /a: "a/../aa"
\* gives /a/aa, "a/./a" gives /a/a/a and "." gives /a.
C10_LexicalNormalisation ==
    (Ran /\ vp.ok) =>
        /\ vp.path = Render(LexWalk(JoinedPieces(base, path), <<>>))
        /\ ~HasPiece(vp.path, ParentDir)
        /\ ~HasPiece(vp.path, CurDir)
        /\ (base = Work /\ path = <<"a", "/", ".", ".", "/", "a", "a">>)
              => vp.path = <<"/", "a", "/", "a", "a">>
        /\ (base = Work /\ path = <<"a", "/", ".", "/", "a">>)
              => vp.path = <<"/", "a", "/", "a", "/", "a">>
        /\ (base = Work /\ path = <<".">>) => vp.path = Work

C10_Witness ==
    /\ Ran
    /\ base = Work
    /\ path = <<"a", "/", ".", ".", "/", "a", "a">>
    /\ vp = [ok |-> TRUE, path |-> <<"/", "a", "/", "a", "a">>, err |-> NoError]

\* The segments of the normalised path: the walk over the segments of the
\* request, after those of the root when the request is relative.
Normalised(b, p) == LexWalk(JoinedPieces(b, p), <<>>)

\* The list of segments xs begins with the list ys.
SegPrefix(ys, xs) == Len(ys) <= Len(xs) /\ SubSeq(xs, 1, Len(ys)) = ys

Dots3 == <<".", ".", ".">>

\* C11 (acceptance is exact): validate_path accepts exactly when the
\* normalised path is the root or nested under it (whole segments), and
\* rejects with the access-denied error otherwise; an absolute request, also
\* one with repeated leading separators, is not joined onto the root. Under
\* /a: "/a/aa" is accepted as /a/aa; "/aa/a", "///aa/a" and "/" are rejected.
C11_ExactAcceptance ==
    Ran =>
        /\ vp.ok <=> SegPrefix(NonEmptyPieces(base), Normalised(base, path))
        /\ ~vp.ok => vp.err = AccessDenied
        /\ (vp.ok /\ is_absolute(path)) =>
              vp.path = Render(LexWalk(NonEmptyPieces(path), <<>>))
        /\ (vp.ok /\ ~is_absolute(path)) =>
              vp.path = Render(LexWalk(NonEmptyPieces(base)
                                          \o NonEmptyPieces(path), <<>>))
        /\ (base = Work /\ path = <<"/", "a", "/", "a", "a">>)
              => (vp.ok /\ vp.path = <<"/", "a", "/", "a", "a">>)
        /\ (base = Work /\ path \in { <<"/", "a", "a", "/", "a">>,
                                      <<"/", "/", "/", "a", "a", "/", "a">>,
                                      <<"/", "a", "a">>,
                                      <<"/">> })
              => ~vp.ok

C11_Witness ==
    /\ Ran
    /\ base = Work
    /\ path = <<"/", "/", "/", "a", "a", "/", "a">>
    /\ ~vp.ok
    /\ vp.err = AccessDenied

\* A piece of three or more dots.
DotName(x) == Len(x) >= 3 /\ \A i \in 1..Len(x) : x[i] = "."

\* C12 (literal dot-segments): a segment of three or more dots is a file
\* name: a relative request whose segments are names, one of them all dots,
\* with no "." and no ".." is accepted as the root followed by these segments.
\* "..." under /a is accepted as /a/... .
C12_LiteralDots ==
    LET ps == NonEmptyPieces(path) IN
    (/\ Ran
     /\ ~is_absolute(path)
     /\ \E i \in 1..Len(ps) : DotName(ps[i])
     /\ \A i \in 1..Len(ps) : ps[i] # CurDir /\ ps[i] # ParentDir)
    => /\ vp.ok
       /\ vp.path = Render(NonEmptyPieces(base) \o ps)
       /\ (base = Work /\ path = Dots3) => vp.path = <<"/", "a", "/", ".", ".", ".">>

C12_Witness ==
    /\ Ran
    /\ base = Work
    /\ path = Dots3
    /\ vp = [ok |-> TRUE, path |-> <<"/", "a", "/", ".", ".", ".">>,
             err |-> NoError]

\* C13 (empty request): for every root, the empty requested path is accepted
\* and the result is the root.
C13_EmptyIsRoot ==
    (Ran /\ path = <<>>) => (vp.ok /\ vp.path = base /\ vp.err = NoError)

C13_Witness ==
    /\ Ran
    /\ path = <<>>
    /\ base = <<"/", "a", "/", "a">>
    /\ vp.ok
    /\ vp.path = <<"/", "a", "/", "a">>

(***************************************************************************)
(* Properties of the guard, checked under Spec.                            *)
(***************************************************************************)
InFlight(k) == k.pc # "idle"

GuardedCall(k) == k.pc # "idle" /\ k.tool \in GuardedTools

CancelRet == [ok |-> FALSE, err |-> Cancelled]

\* The patterns of the model's lists that are not regular expressions.
InvalidPatterns == { <<"(">>, <<"(", "b">> }

\* Some configured pattern that is a regular expression matches the text.
PatternHit(cmd) ==
    \E i \in DOMAIN bash_auto_allow :
        /\ bash_auto_allow[i] \notin InvalidPatterns
        /\ is_match(bash_auto_allow[i], cmd)

\* The call's arguments are matched by the auto-approve predicate of its guard.
AutoHit(k) == k.tool = "bash" /\ PatternHit(k.args)

Approved(k) ==
    \/ yolo
    \/ ~k.prompted /\ always[k.tool]
    \/ AutoHit(k)
    \/ k.answer \in {"Yes", "Always"}

\* The step in which the prompt of call c is answered ans.
Answered(c, ans) ==
    /\ calls[c].pc = "confirm"
    /\ calls'[c].pc # "confirm"
    /\ calls'[c].answer = ans

\* The step in which slot c, whose last call went to tool t, takes a new call
\* to the same tool.
NextCallSameTool(c) ==
    /\ calls[c].pc = "idle"
    /\ calls'[c].pc # "idle"
    /\ calls'[c].tool = calls[c].tool

\* C2 (guard gate): the wrapped tool's call is started for a call through a
\* guard only if yolo is on, the always flag was set, the auto-approve
\* predicate matches, or the operator answered Yes or Always to the call's
\* own prompt; an approved call delegates exactly once, a denied one never.
C2_GuardGate ==
    \A c \in CallIds :
        LET k == calls[c] IN
        GuardedCall(k) =>
            /\ k.delegated <= 1
            /\ (k.pc = "tool" \/ k.delegated = 1) => Approved(k)
            /\ k.pc = "confirm" => k.delegated = 0
            /\ k.pc = "done" => k.delegated = (IF Approved(k) THEN 1 ELSE 0)

C2_Witness ==
    \E c \in CallIds :
        /\ calls[c].pc = "tool"
        /\ calls[c].tool = "move_file"
        /\ calls[c].answer = "Yes"
        /\ ~yolo

\* C3 (idempotent approval): once a prompt of a guard is answered Always the
\* guard's flag is set and stays set, the answered call is delegated, and no
\* later call through that guard is prompted: each is delegated, whatever its
\* arguments.
C3_IdempotentApproval ==
    /\ \A g \in answered_always : always[g]
    /\ \A c \in CallIds :
        LET k == calls[c] IN
        /\ (InFlight(k) /\ k.answer = "Always") =>
               /\ k.tool \in answered_always
               /\ k.pc \in {"tool", "done"}
               /\ k.pc = "done" => (k.delegated = 1 /\ k.ret \in ToolOutcomes)
        /\ (GuardedCall(k) /\ k.tool \in answered_always) =>
               /\ k.pc # "confirm"
               /\ k.prompted => k.answer = "Always"
               /\ k.pc = "done" => (k.delegated = 1 /\ k.ret \in ToolOutcomes)

C3_Witness ==
    \E c \in CallIds :
        /\ calls[c].pc = "done"
        /\ calls[c].tool = "remove"
        /\ calls[c].args = <<"b", "a">>
        /\ "remove" \in answered_always
        /\ ~calls[c].prompted
        /\ calls[c].delegated = 1
        /\ ~yolo

\* C4 (denial): answering No leaves the wrapped tool uncalled, makes the call
\* return ToolError::Generic("Action cancelled by user") and changes no
\* always flag; the denial is not remembered: the next call through the same
\* guard, unless the auto-approve predicate matches it, is prompted again.
C4_Denial ==
    /\ [](\A c \in CallIds :
            (InFlight(calls[c]) /\ calls[c].answer = "No") =>
                /\ calls[c].pc = "done"
                /\ calls[c].delegated = 0
                /\ calls[c].ret = CancelRet
                /\ ~always[calls[c].tool])
    /\ [][\A c \in CallIds :
            /\ Answered(c, "No") => always' = always
            /\ (NextCallSameTool(c) /\ calls[c].answer = "No"
                  /\ ~AutoHit(calls'[c]))
                  => (calls'[c].pc = "confirm" /\ calls'[c].prompted)]_vars

C4_Witness ==
    \E c \in CallIds :
        /\ calls[c].pc = "done"
        /\ calls[c].tool = "remove"
        /\ calls[c].answer = "No"
        /\ calls[c].ret = CancelRet
        /\ calls[c].delegated = 0

\* C5 (Yes is one-shot): answering Yes delegates that call, once, and changes
\* no always flag; the next call through the same guard, with yolo off and no
\* auto-approve match, is prompted again.
C5_YesOneShot ==
    /\ [](\A c \in CallIds :
            (InFlight(calls[c]) /\ calls[c].answer = "Yes") =>
                /\ calls[c].pc \in {"tool", "done"}
                /\ calls[c].pc = "done" => calls[c].delegated = 1
                /\ ~always[calls[c].tool])
    /\ [][\A c \in CallIds :
            /\ Answered(c, "Yes") =>
                  (always' = always /\ calls'[c].pc = "tool")
            /\ (NextCallSameTool(c) /\ calls[c].answer = "Yes"
                  /\ ~AutoHit(calls'[c]))
                  => (calls'[c].pc = "confirm" /\ calls'[c].prompted)]_vars

C5_Witness ==
    \E c \in CallIds :
        /\ calls[c].pc = "done"
        /\ calls[c].tool = "copy_file"
        /\ calls[c].answer = "Yes"
        /\ calls[c].delegated = 1
        /\ ~always["copy_file"]

\* C6 (global bypass): with yolo on, no call through any guard is ever
\* prompted, each is delegated at once, and no always flag changes.
C6_GlobalBypass ==
    yolo =>
        /\ always = [g \in GuardedTools |-> FALSE]
        /\ \A c \in CallIds :
            LET k == calls[c] IN
            GuardedCall(k) =>
                /\ k.pc \in {"tool", "done"}
                /\ ~k.prompted
                /\ k.answer = "none"
                /\ k.pc = "done" => (k.delegated = 1 /\ k.ret \in ToolOutcomes)

C6_Witness ==
    /\ yolo
    /\ \E c \in CallIds :
        /\ calls[c].pc = "done"
        /\ calls[c].tool = "bash"
        /\ calls[c].delegated = 1

\* C7 (auto-approve precedence): with yolo off and no Always recorded, a bash
\* call whose command some configured pattern matches is delegated without a
\* prompt and without a change of the always flag; a bash call no pattern
\* matches is prompted, also right after an auto-approved one.
C7_AutoApprovePrecedence ==
    /\ [](~yolo =>
            \A c \in CallIds :
                LET k == calls[c] IN
                (InFlight(k) /\ k.tool = "bash") =>
                    /\ PatternHit(k.args) =>
                          /\ ~k.prompted
                          /\ k.pc \in {"tool", "done"}
                          /\ k.pc = "done" => k.delegated = 1
                    /\ (~PatternHit(k.args) /\ ~always["bash"]) => k.prompted)
    /\ [][~yolo =>
            \A c \in CallIds :
                /\ (calls'[c] # calls[c] /\ AutoHit(calls'[c]))
                      => always' = always
                /\ (NextCallSameTool(c) /\ AutoHit(calls'[c]) /\ ~always["bash"])
                      => calls'[c].pc = "tool"
                /\ (NextCallSameTool(c) /\ calls[c].tool = "bash"
                      /\ ~calls[c].prompted /\ ~always["bash"]
                      /\ ~PatternHit(calls'[c].args))
                      => calls'[c].pc = "confirm"]_vars

C7_Witness ==
    /\ ~yolo
    /\ ~always["bash"]
    /\ \E c \in CallIds :
        /\ calls[c].pc = "done"
        /\ calls[c].tool = "bash"
        /\ calls[c].args = <<"a">>
        /\ ~calls[c].prompted
        /\ calls[c].delegated = 1

\* C8 (pattern compile failure fails closed): a pattern that is not a
\* regular expression approves nothing and raises nothing; a bash call is
\* approved by the list only if a pattern that compiles matches it, a list of
\* invalid patterns only leaves every call to the prompt, and an invalid
\* pattern in the list does not keep a valid one from matching.
C8_InvalidPatternFailsClosed ==
    ~yolo =>
        \A c \in CallIds :
            LET k == calls[c]
                onlyInvalid ==
                    \A i \in DOMAIN bash_auto_allow :
                        bash_auto_allow[i] \in InvalidPatterns
            IN
            (InFlight(k) /\ k.tool = "bash") =>
                /\ (~k.prompted /\ ~always["bash"]) => PatternHit(k.args)
                /\ (onlyInvalid /\ ~always["bash"]) => k.prompted
                /\ PatternHit(k.args) => ~k.prompted
                /\ k.pc = "done" =>
                      k.ret \in ToolOutcomes \cup {CancelRet}

C8_Witness ==
    /\ ~yolo
    /\ ~always["bash"]
    /\ bash_auto_allow = << <<"(">>, <<"a", "$">> >>
    /\ \E c \in CallIds :
        /\ calls[c].pc = "done"
        /\ calls[c].tool = "bash"
        /\ calls[c].args = <<"b", "a">>
        /\ ~calls[c].prompted
        /\ calls[c].delegated = 1

\* C9 (guard state is per instance): an Always answer sets the flag of the
\* answered guard and of no other; a call through a guard that has not had
\* its own Always is still prompted (yolo off, no auto-approve match),
\* whichever other guards have.
C9_PerInstanceState ==
    /\ [](/\ \A g \in GuardedTools : always[g] => g \in answered_always
          /\ ~yolo =>
                \A c \in CallIds :
                    LET k == calls[c] IN
                    (GuardedCall(k) /\ ~AutoHit(k)
                       /\ k.tool \notin answered_always) => k.prompted)
    /\ [][\A c \in CallIds :
            Answered(c, "Always") =>
                /\ always'[calls[c].tool]
                /\ \A g \in GuardedTools \ {calls[c].tool} :
                      always'[g] = always[g]]_vars

C9_Witness ==
    /\ answered_always = {"remove"}
    /\ \E c \in CallIds :
        /\ calls[c].pc = "confirm"
        /\ calls[c].tool = "make_dir"

(***************************************************************************)
(* Properties of the file tools, checked under SpecTools.                  *)
(***************************************************************************)
\* The request p normalises to a path that is neither the root b nor under it.
Outside(b, p) == ~SegPrefix(NonEmptyPieces(b), Normalised(b, p))

SomeArgOutside == \E i \in 1..Len(tcall.args) : Outside(base, tcall.args[i])

DeniedRet == [ok |-> FALSE, err |-> AccessDenied]

\* C14 (violation precedes I/O): each of the ten file tools makes a
\* filesystem call only after every path argument has been resolved by
\* get_path, and only on resolved paths, which are under the root; a call
\* with a path argument outside the root (src or dst alike) makes no
\* filesystem call and returns the access-denied error (an Io error when
\* current_dir() itself failed).
C14_ViolationBeforeIo ==
    tcall.pc # "idle" =>
        /\ tcall.tool \in FileTools
        /\ fs_ops # <<>> =>
              /\ Len(tcall.resolved) = Len(tcall.args)
              /\ \A i \in 1..Len(tcall.args) : ~Outside(base, tcall.args[i])
        /\ \A i \in 1..Len(fs_ops) : \A j \in 1..Len(fs_ops[i].paths) :
              /\ TextUnder(fs_ops[i].paths[j], base)
              /\ \E n \in 1..Len(tcall.resolved) :
                    fs_ops[i].paths[j] = tcall.resolved[n]
        /\ SomeArgOutside =>
              /\ fs_ops = <<>>
              /\ tcall.pc \in {"resolve", "done"}
              /\ tcall.pc = "done" =>
                    \/ tcall.ret = DeniedRet
                    \/ tcall.cwd_failed /\ tcall.ret = [ok |-> FALSE, err |-> IoError]
        /\ tcall.ret = DeniedRet => (SomeArgOutside /\ fs_ops = <<>>)

C14_Witness ==
    /\ tcall.pc = "done"
    /\ tcall.tool = "move_file"
    /\ tcall.args = << <<"a">>, <<"a", "/", ".", ".", "/", ".", ".">> >>
    /\ Len(tcall.resolved) = 1
    /\ tcall.ret = DeniedRet
    /\ fs_ops = <<>>

(***************************************************************************)
(* Properties of the interactive loop, checked under SpecSession.          *)
(***************************************************************************)
\* The step in which the loop reads the line l and handles it.
LineRead(l) ==
    /\ loop.pc = "read"
    /\ loop'.pc # "exited"
    /\ loop'.line = l

\* The lines the loop keeps for itself.
ReservedLine(l) ==
    \/ l \in {PlanCommand, CodeCommand, GoCommand, QuitCommand, ExitCommand}
    \/ str_starts_with(l, WriteCommand)

Framed(l) == PLAN_MODE_PROMPT \o UserRequest \o l

LastTurn == turns[Len(turns)]

NoTurnSent == turns' = turns /\ loop'.pc # "turn"

Hi == <<"h", "i">>

\* C15 (mode framing): a line that is not empty and not a command, read in
\* Plan mode, goes to the model as the planning preamble, "\n\nUser Request: "
\* and the line; read in Code mode it goes to the model as it is. The turn is
\* given the history of the session.
C15_ModeFraming ==
    /\ []((loop.pc = "turn" /\ ~ReservedLine(loop.line)) =>
            /\ loop.line # <<>>
            /\ LastTurn.input = (IF current_mode = "Plan" THEN Framed(loop.line)
                                 ELSE loop.line)
            /\ LastTurn.history = history)
    /\ [][\A l \in Lines :
            (LineRead(l) /\ l # <<>> /\ ~ReservedLine(l)) =>
                /\ loop'.pc = "turn"
                /\ current_mode' = current_mode
                /\ turns' = Append(turns,
                       [input |-> IF current_mode = "Plan" THEN Framed(l) ELSE l,
                        history |-> history])]_vars

C15_Witness ==
    /\ loop.pc = "turn"
    /\ loop.line = Hi
    /\ current_mode = "Plan"
    /\ LastTurn.input = PLAN_MODE_PROMPT \o UserRequest \o Hi

\* C16 (mode switch commands): /plan leaves the session in Plan mode and /code
\* in Code mode; in the mode asked for the command changes nothing and emits
\* the already-in-mode notice. In all four cases no turn is sent and history,
\* responses and files are unchanged.
C16_ModeSwitch ==
    [][/\ LineRead(PlanCommand) =>
            /\ current_mode' = "Plan"
            /\ loop'.notice = (IF current_mode = "Plan"
                               THEN "Already in plan mode"
                               ELSE "Switched to PLAN mode")
            /\ NoTurnSent
            /\ loop'.pc = "read"
            /\ UNCHANGED <<history, responses, files>>
       /\ LineRead(CodeCommand) =>
            /\ current_mode' = "Code"
            /\ loop'.notice = (IF current_mode = "Code"
                               THEN "Already in code mode"
                               ELSE "Switched to CODE mode")
            /\ NoTurnSent
            /\ loop'.pc = "read"
            /\ UNCHANGED <<history, responses, files>>]_vars

C16_Witness ==
    /\ loop.pc = "read"
    /\ loop.line = PlanCommand
    /\ loop.notice = "Already in plan mode"
    /\ current_mode = "Plan"
    /\ Len(turns) = 1

\* C17 (/go): in Code mode /go sends nothing and changes no state; in Plan
\* mode it switches to Code and runs one turn whose input is exactly
\* "Implement the plan.", given the session's history, and the response of
\* that turn becomes the most recent response.
C17_Go ==
    /\ []((loop.pc = "turn" /\ loop.line = GoCommand) =>
            /\ current_mode = "Code"
            /\ LastTurn = [input |-> ImplementThePlan, history |-> history])
    /\ [][/\ (LineRead(GoCommand) /\ current_mode = "Code") =>
                /\ NoTurnSent
                /\ loop'.pc = "read"
                /\ UNCHANGED <<current_mode, history, responses, files>>
          /\ (LineRead(GoCommand) /\ current_mode = "Plan") =>
                /\ current_mode' = "Code"
                /\ loop'.pc = "turn"
                /\ turns' = Append(turns, [input |-> ImplementThePlan,
                                           history |-> history])
                /\ UNCHANGED <<history, responses, files>>
          /\ (loop.pc = "turn" /\ loop.line = GoCommand /\ loop'.pc = "read") =>
                /\ turns' = turns
                /\ current_mode' = "Code"
                /\ Len(responses') = Len(responses) + 1
                /\ SubSeq(responses', 1, Len(responses)) = responses
                /\ history'[Len(history')] =
                      AssistantMessage(responses'[Len(responses')])]_vars

C17_Witness ==
    /\ loop.pc = "read"
    /\ loop.line = GoCommand
    /\ current_mode = "Code"
    /\ Len(turns) = 2
    /\ turns[1].input = Framed(Hi)
    /\ turns[2].input = ImplementThePlan
    /\ Len(turns[2].history) = 2
    /\ responses = <<"r1", "r2">>

\* The file a /write line of the model names.
NamedFile(l) ==
    IF l = WriteCommand THEN DefaultFile ELSE <<"f">>

\* C18 (/write): a /write line that is carried out leaves in the file named
\* after the command, plan.md when none is named, the text of the most
\* recent response, that of the last turn (a line's or /go's) that returned
\* one; with no response yet it writes no file and emits a notice. It sends
\* no turn and changes neither the mode nor the history.
C18_Write ==
    /\ [](responses # <<>> =>
            history[Len(history)] = AssistantMessage(responses[Len(responses)]))
    /\ [][\A l \in Lines :
            (LineRead(l) /\ str_starts_with(l, WriteCommand)) =>
                /\ NoTurnSent
                /\ UNCHANGED <<current_mode, history, responses>>
                /\ responses = <<>> =>
                      /\ files' = files
                      /\ loop'.pc = "read"
                      /\ loop'.notice = "No response to save yet"
                /\ (responses # <<>> /\ loop'.pc = "read") =>
                      /\ files' = [files EXCEPT ![NamedFile(l)] =
                                      responses[Len(responses)]]
                      /\ loop'.notice = "Response saved to"]_vars

C18_Witness ==
    /\ loop.pc = "read"
    /\ loop.line = WriteCommand \o <<" ", "f">>
    /\ responses = <<"r1", "r2">>
    /\ files[<<"f">>] = "r2"
    /\ files[DefaultFile] = "r1"

\* C19 (exit): run_interactive has returned Ok only when the last line read is
\* /q or exit; reading either returns Ok without a turn, and nothing is read
\* or run afterwards.
C19_Exit ==
    /\ [](loop.pc = "ok" => loop.line \in {QuitCommand, ExitCommand})
    /\ [][/\ \A l \in {QuitCommand, ExitCommand} :
                LineRead(l) =>
                    /\ loop'.pc = "ok"
                    /\ turns' = turns
                    /\ UNCHANGED <<current_mode, history, responses, files>>
          /\ loop'.pc = "ok" =>
                (loop.pc = "read" /\ loop'.line \in {QuitCommand, ExitCommand})
          /\ loop.pc # "ok"]_vars

C19_Witness ==
    /\ loop.pc = "ok"
    /\ loop.line = ExitCommand
    /\ Len(turns) = 1
    /\ turns[1].input = Hi

\* Turn i is a turn of the interactive loop: it was given the history.
InteractiveTurn(i) == turns[i].history # NoHistory

\* C20 as stated: no input of a turn of the interactive loop is a line that
\* starts with "/".
C20_NoSlashLineSent ==
    \A i \in 1..Len(turns) :
        InteractiveTurn(i) => ~str_starts_with(turns[i].input, <<"/">>)

\* C20 (reserved command lines), amended: the reserved lines, /plan, /code,
\* /go, /q, exit and every line that starts with /write, are consumed by the
\* interactive loop: none of them is the input of one of its turns, as it is
\* or framed, and reading one sends no turn but the fixed directive of /go.
C20_ReservedConsumed ==
    /\ [](\A i \in 1..Len(turns) : \A l \in Lines :
            (InteractiveTurn(i) /\ ReservedLine(l)) =>
                (turns[i].input # l /\ turns[i].input # Framed(l)))
    /\ [][\A l \in Lines :
            (LineRead(l) /\ ReservedLine(l)) =>
                \/ turns' = turns
                \/ /\ l = GoCommand
                   /\ turns' = Append(turns, [input |-> ImplementThePlan,
                                              history |-> history])]_vars

C20_Witness ==
    /\ loop.pc = "read"
    /\ loop.line = PlanCommand
    /\ loop.notice = "Switched to PLAN mode"
    /\ Len(turns) = 1
    /\ turns[1].input = <<"/", "x">>

\* C25 (only construction errors are fatal): no failure met while an input
\* line is handled, a turn that returns an error or a /write that cannot
\* write, ends the loop: run_interactive never returns Err, which main reports
\* before it exits with status 1.
C25_FailuresNotFatal ==
    loop.pc # "err"

\* CodeAgent::prompt is not running: it has not been called or has returned.
PromptReturned == loop.pc \in {"read", "once", "ok", "err", "exited"}

\* C26 (thinking indicator): whenever prompt has returned, with a response or
\* with an error, the thinking indicator it put up is cleared.
C26_IndicatorCleared ==
    PromptReturned => ~thinking

\* h begins with g.
IsPrefix(g, h) == Len(g) <= Len(h) /\ SubSeq(h, 1, Len(g)) = g

Interactive == loop.pc \in {"read", "turn", "ok", "exited"}

\* C27 (history threading): the history of an interactive session starts
\* empty, changes only when a turn returns, which appends to it, and is what
\* every turn of the session, a line's or /go's, is given: a turn's history
\* holds the input and the response of every earlier turn. A turn run by
\* run_once is given no history.
C27_HistoryThreading ==
    /\ history = <<>>
    /\ [](/\ Interactive =>
               \A i \in 1..Len(turns) :
                  /\ IsPrefix(turns[i].history, history)
                  /\ Len(turns[i].history) = 2 * (i - 1)
                  /\ \A j \in 1..(i - 1) :
                        /\ turns[i].history[2 * j - 1] = UserMessage(turns[j].input)
                        /\ turns[i].history[2 * j].role = "assistant"
          /\ loop.pc \in {"once", "once_turn"} =>
               /\ history = <<>>
               /\ \A i \in 1..Len(turns) : turns[i].history = NoHistory)
    /\ [][/\ IsPrefix(history, history')
          /\ history' # history =>
                /\ loop.pc = "turn"
                /\ loop'.pc = "read"
                /\ Len(history') = Len(history) + 2
                /\ history'[Len(history) + 1] = UserMessage(LastTurn.input)
          /\ \A l \in Lines : LineRead(l) => history' = history]_vars

C27_Witness ==
    /\ loop.pc = "turn"
    /\ Len(turns) = 2
    /\ turns[1].input = ImplementThePlan
    /\ turns[2].input = Hi
    /\ turns[2].history = << UserMessage(ImplementThePlan),
                             AssistantMessage("r2") >>
    /\ history = turns[2].history

(***************************************************************************)
(* Properties of concurrent calls through the guards, checked under        *)
(* SpecConc.                                                               *)
(***************************************************************************)

\* The calls whose confirmation prompt is displayed and not yet answered.
OpenPrompts == {c \in CallIds : calls[c].pc = "confirm"}

\* C29 (prompt serialization): at most one confirmation prompt is open at
\* any time, however many calls that need a confirmation are in flight.
C29_OnePromptAtATime ==
    Cardinality(OpenPrompts) <= 1

\* C30 (always flag under concurrency): the flag of every guard starts
\* false; in every step of every interleaving of the calls a flag that is
\* true stays true, and a flag changes only in the step in which a prompt of
\* its own guard is answered Always.
C30_AlwaysMonotone ==
    /\ \A g \in GuardedTools : ~always[g]
    /\ [][\A g \in GuardedTools :
            /\ always[g] => always'[g]
            /\ always'[g] # always[g] =>
                  \E c \in CallIds :
                      Answered(c, "Always") /\ calls[c].tool = g]_vars

C30_Witness ==
    /\ always["remove"]
    /\ calls[1].tool = "remove" /\ calls[1].answer = "Always"
    /\ calls[1].pc = "tool"
    /\ calls[2].tool = "remove" /\ calls[2].prompted
    /\ calls[2].answer = "Always" /\ calls[2].pc = "tool"

(***************************************************************************)
(* Properties of the tool dispatch hook, checked under SpecHook.           *)
(***************************************************************************)

\* C28 (the hook never fails): for every tool name, argument string and
\* result string, on_tool_call and on_tool_result return without panicking.
C28_HookNeverPanics ==
    hook.pc # "panicked"

(***************************************************************************)
(* Properties of the turns with tool calls, checked under SpecTurn.        *)
(***************************************************************************)

\* The step in which the engine starts a tool call.
CallStarts == calls[1].pc = "idle" /\ calls'[1].pc # "idle"

\* The step in which the result of a call the operator denied goes back to
\* the engine.
DenialReturns ==
    /\ calls[1].pc = "done"
    /\ calls[1].answer = "No"
    /\ calls'[1].pc = "idle"

\* C21 (mode frame): the mode is Code when the session starts and changes
\* only in a step that reads /plan, /code or /go; no step of a turn (a tool
\* call, a confirmation, a denial, the turn's return or failure), no /write
\* and no empty line changes it.
C21_ModeFrame ==
    /\ current_mode = "Code"
    /\ [][/\ current_mode' # current_mode =>
                \E l \in Lines :
                    LineRead(l) /\ Command(l) \in {"plan", "code", "go"}
          /\ loop.pc = "turn" => current_mode' = current_mode
          /\ \A l \in Lines :
                (LineRead(l) /\ Command(l) \in {"empty", "write", "send"})
                   => current_mode' = current_mode]_vars

C21_Witness ==
    /\ current_mode = "Plan"
    /\ loop.pc = "read"
    /\ loop.line = WriteCommand
    /\ Len(history) = 2
    /\ eng.fed = << CancelRet >>

\* C22 (mode does not affect permissions): in Plan mode as in Code mode a
\* call is of a registered tool, is prompted exactly when its tool is
\* guarded, yolo is off, the guard's flag is not set and no pattern matches
\* its arguments, and after the prompt goes to the tool exactly when the
\* answer is not No: the decision is a function of the guard's state, yolo,
\* the patterns and the answer, and the mode is no argument of it.
C22_ModeBlindGuard ==
    /\ [](InFlight(calls[1]) =>
            /\ calls[1].tool \in Registered(browser)
            /\ calls[1].prompted => calls[1].tool \in GuardedTools)
    /\ [][/\ CallStarts =>
                calls'[1].prompted =
                    (/\ calls'[1].tool \in GuardedTools
                     /\ ~yolo
                     /\ ~always[calls'[1].tool]
                     /\ ~AutoHit(calls'[1]))
          /\ \A ans \in Confirmations :
                Answered(1, ans) =>
                    /\ (calls'[1].pc = "tool") = (ans # "No")
                    /\ (calls'[1].pc = "done") = (ans = "No")]_vars

C22_Witness ==
    /\ current_mode = "Plan"
    /\ loop.pc = "turn"
    /\ calls[1].tool = "bash"
    /\ calls[1].pc = "confirm"
    /\ always["remove"]

\* C24 (denial is not fatal): a call the operator answered No returns, without
\* the tool having run, the error Generic("Action cancelled by user"), of
\* another kind than an I/O error; the error goes back to the model as the
\* call's result, and the turn goes on: neither the answer nor the return of
\* the error ends the turn or the session.
C24_DenialNotFatal ==
    /\ [](\A c \in CallIds :
            (calls[c].pc = "done" /\ calls[c].answer = "No") =>
                /\ ~calls[c].ret.ok
                /\ calls[c].ret.err.kind = "Generic"
                /\ calls[c].ret.err.kind # IoError.kind
                /\ calls[c].ret.err.msg = "Action cancelled by user"
                /\ calls[c].delegated = 0)
    /\ [][/\ Answered(1, "No") => loop'.pc = "turn"
          /\ DenialReturns =>
                /\ eng'.fed = Append(eng.fed, calls[1].ret)
                /\ loop'.pc = "turn"]_vars

C24_Witness ==
    /\ loop.pc = "read"
    /\ loop.line = <<"h", "i">>
    /\ eng.fed = << CancelRet >>
    /\ responses = << "r1" >>
    /\ Len(history) = 2

(***************************************************************************)
(* Properties of Output::confirm, checked under SpecConfirm.               *)
(***************************************************************************)

\* What the line s stands for when read case-insensitively.
Stands(s) ==
    LET l == to_lowercase(s)
    IN IF l = <<"y">> \/ l = <<"y", "e", "s">> THEN "Yes"
       ELSE IF l = <<"s">> \/ l = <<"s", "e", "s", "s", "i", "o", "n">>
            THEN "Always"
            ELSE "No"

\* C31 (confirmation answers): whichever Output asked, confirm returns: Yes
\* for y and yes, Always for s and session, in any case of the letters and
\* with or without the blanks around them, and No for every other line and
\* for the end of the input.
C31_AnswerMapping ==
    asked.pc # "idle" =>
        /\ asked.pc = "answered"
        /\ IF asked.typed.kind = "line"
           THEN asked.answer \in {Stands(asked.typed.text),
                                  Stands(trim(asked.typed.text))}
           ELSE asked.answer = "No"

(***************************************************************************)
(* Properties of the guards around the file tools, checked under           *)
(* SpecGuarded.                                                            *)
(***************************************************************************)

\* The step in which the guard's call returns after the wrapped tool's.
Delegated == calls[1].pc = "tool" /\ calls'[1].pc = "done"

\* C32 (transparent delegation): the wrapped tool that an approved call
\* starts is the tool of the guard's name, given the guard's arguments; the
\* guard's call returns what that tool's call returned, Ok or the tool's
\* error as it is, after calling it once; and no step of the wrapped tool,
\* failing or not, changes an always flag.
C32_TransparentDelegation ==
    /\ [](tcall.pc # "idle" =>
            /\ tcall.tool = calls[1].tool
            /\ tcall.args = calls[1].args
            /\ Approved(calls[1]))
    /\ [][/\ Delegated =>
                /\ tcall.pc = "done"
                /\ calls'[1].ret = tcall.ret
                /\ calls'[1].delegated = 1
          /\ (tcall.pc # "idle" \/ tcall'.pc # "idle") => always' = always]_vars

C32_Witness ==
    /\ calls[1].pc = "done"
    /\ calls[1].tool = "move_file"
    /\ calls[1].answer = "Always"
    /\ tcall.pc = "done"
    /\ calls[1].ret = [ok |-> FALSE, err |-> IoError]
    /\ always["move_file"]

(***************************************************************************)
(* The prompt condition of Guard::call against the ordered decision,       *)
(* checked under Spec.                                                     *)
(***************************************************************************)

\* The ordered decision: yolo, then the always flag, then the auto-approve
\* predicate, then the prompt.
OrderedDecision(y, al, auto) ==
    IF y THEN "tool"
    ELSE IF al THEN "tool"
    ELSE IF auto THEN "tool"
    ELSE "confirm"

\* Call c enters its guard in this step.
Enters(c) ==
    /\ calls[c].pc = "idle"
    /\ calls'[c].pc # "idle"
    /\ calls'[c].tool \in GuardedTools

\* C33 (prompt condition): a call that enters a guard is prompted if and
\* only if yolo is off, the guard's flag is not set at that moment and no
\* auto-approve predicate matches its arguments; where it goes is where the
\* ordered decision (yolo, always, auto-approve, prompt) sends it; and a
\* prompt opens only when a call enters, so at most once per call.
C33_PromptCondition ==
    [][\A c \in CallIds :
          /\ Enters(c) =>
               /\ calls'[c].prompted <=>
                     (~yolo /\ ~always[calls'[c].tool] /\ ~AutoHit(calls'[c]))
               /\ calls'[c].pc = OrderedDecision(yolo, always[calls'[c].tool],
                                                 AutoHit(calls'[c]))
               /\ calls'[c].prompted <=> calls'[c].pc = "confirm"
          /\ (calls[c].pc # "confirm" /\ calls'[c].pc = "confirm")
                => calls[c].pc = "idle"
          /\ (calls[c].pc # "idle" /\ calls'[c].pc # "idle")
                => calls'[c].prompted = calls[c].prompted]_vars

C33_Witness ==
    \E c \in CallIds :
        /\ calls[c].pc = "tool"
        /\ calls[c].tool = "bash"
        /\ ~calls[c].prompted
        /\ ~yolo
        /\ always["bash"]
        /\ bash_auto_allow # <<>>
        /\ ~AutoHit(calls[c])

(***************************************************************************)
(* The load of the flag and the prompt as two steps, checked under         *)
(* SpecRace.                                                               *)
(***************************************************************************)

\* C35 (no prompt after Always under concurrency): in every interleaving of
\* the calls in flight through one guard, no prompt of a guard is presented
\* once that guard's flag has been set by an Always answer, not even for a
\* call that was in flight when the answer was given.
C35_NoPromptAfterAlways ==
    [][\A c \in CallIds :
          (calls[c].pc # "confirm" /\ calls'[c].pc = "confirm")
             => ~always[calls'[c].tool]]_vars

(***************************************************************************)
(* Lines that look like commands and are none, checked under SpecSession.  *)
(***************************************************************************)

\* A line that starts with "/" and is no command of the loop.
UnknownCommand(l) ==
    /\ str_starts_with(l, <<"/">>)
    /\ l \notin {PlanCommand, CodeCommand, GoCommand, QuitCommand}
    /\ ~str_starts_with(l, WriteCommand)

PlanAndBlank == PlanCommand \o <<" ">>

\* C34 (unknown commands fall through): a line that starts with "/" and is
\* none of /plan, /code, /go, /q and does not start with /write is sent to
\* the model as a turn, as it is in Code mode and behind the planning
\* preamble in Plan mode; reading it leaves the mode as it was and does not
\* end the loop.
C34_UnknownCommandSent ==
    /\ \E l \in Lines : UnknownCommand(l) /\ str_starts_with(l, PlanCommand)
    /\ [][\A l \in Lines :
            (LineRead(l) /\ UnknownCommand(l)) =>
                /\ loop'.pc = "turn"
                /\ Len(turns') = Len(turns) + 1
                /\ turns'[Len(turns')].input =
                      (IF current_mode = "Plan" THEN Framed(l) ELSE l)
                /\ current_mode' = current_mode]_vars

C34_Witness ==
    /\ loop.pc = "turn"
    /\ loop.line = PlanAndBlank
    /\ current_mode = "Plan"
    /\ Len(turns) = 2
    /\ turns[1].input = Framed(<<"/", "x">>)
    /\ turns[2].input = Framed(PlanAndBlank)

(***************************************************************************)
(* The registration of the tools that change something, checked under      *)
(* Spec.                                                                   *)
(***************************************************************************)

\* The tools that change the filesystem or run a command.
MutatingTools ==
    {"write_file", "edit_file", "make_dir", "remove", "move_file",
     "copy_file", "bash", "agent_browser"}

\* The tool's body has been started for the call.
Executes(k) == k.pc = "tool" \/ (k.pc = "done" /\ k.delegated > 0)

\* C36 (every mutating tool is guarded): write_file, edit_file, make_dir,
\* remove, move_file, copy_file, bash and agent_browser are registered behind
\* a guard, so that with yolo off none of them executes without a
\* confirmation, a recorded Always or an auto-approve match.
C36_MutatingToolsGuarded ==
    \A c \in CallIds :
        (Executes(calls[c]) /\ calls[c].tool \in MutatingTools) =>
            /\ calls[c].tool \in GuardedTools
            /\ Approved(calls[c])

(***************************************************************************)
(* Siblings of the root and repeated resolution, checked under SpecPath.   *)
(***************************************************************************)

\* The text q begins with the text r.
BeginsWith(q, r) == Len(r) <= Len(q) /\ SubSeq(q, 1, Len(r)) = r

\* The normalised request, as a text.
NormalisedText == Render(Normalised(base, path))

\* The normalised request begins with the text of the root and is neither
\* the root nor below it.
SiblingOfRoot ==
    /\ BeginsWith(NormalisedText, base)
    /\ ~TextUnder(NormalisedText, base)

\* C37 (containment by components): a request whose normalised path begins
\* with the text of the root but is a sibling of the root, not the root or
\* something under it, is rejected with the access-denied error. Under /a the
\* requests "../aa/a" and "/aa/a" are such requests.
C37_SiblingRejected ==
    /\ (Ran /\ SiblingOfRoot) => (~vp.ok /\ vp.err = AccessDenied)
    /\ (base = Work /\ path \in { <<".", ".", "/", "a", "a", "/", "a">>,
                                  <<"/", "a", "a", "/", "a">> })
          => SiblingOfRoot

C37_Witness ==
    /\ Ran
    /\ base = Work
    /\ path = <<".", ".", "/", "a", "a", "/", "a">>
    /\ SiblingOfRoot
    /\ vp = [ok |-> FALSE, path |-> <<>>, err |-> AccessDenied]

\* C38 (idempotent, deterministic resolution): for every root and request
\* the result is the value of validate_path on the two, whenever it is
\* applied, and a path that validate_path returns is returned again, as it
\* is, when it is the request under the same root.
C38_Idempotent ==
    Ran =>
        /\ vp = validate_path(base, path)
        /\ vp.ok => validate_path(base, vp.path) =
                       [ok |-> TRUE, path |-> vp.path, err |-> NoError]

C38_Witness ==
    /\ Ran
    /\ base = Work
    /\ path = <<".", "/", "a", "/", "/", ".">>
    /\ vp.ok
    /\ vp.path = <<"/", "a", "/", "a">>
    /\ validate_path(base, vp.path).path = <<"/", "a", "/", "a">>

(***************************************************************************)
(* Properties of edit_file, checked under SpecEdit.                        *)
(***************************************************************************)

\* The places of the text where the old string occurs.
Occurrences(text, old) ==
    {i \in 1..(Len(text) + 1) : HasAt(text, old, i)}

\* The text with what is at place i, as long as old, replaced by new.
ReplacedAt(text, old, new, i) ==
    SubSeq(text, 1, i - 1) \o new \o SubSeq(text, i + Len(old), Len(text))

\* No two occurrences share a character of the text.
Disjoint(text, old) ==
    \A i, j \in Occurrences(text, old) : i < j => i + Len(old) <= j

\* The text with each of the disjoint occurrences from place from on
\* replaced by new, and the characters between them as they are.
RECURSIVE EveryReplaced(_, _, _, _)
EveryReplaced(text, old, new, from) ==
    IF from > Len(text) + 1 THEN <<>>
    ELSE IF from \in Occurrences(text, old)
    THEN new \o (IF old = <<>>
                 THEN (IF from <= Len(text) THEN <<text[from]>> ELSE <<>>)
                         \o EveryReplaced(text, old, new, from + 1)
                 ELSE EveryReplaced(text, old, new, from + Len(old)))
    ELSE (IF from <= Len(text) THEN <<text[from]>> ELSE <<>>)
            \o EveryReplaced(text, old, new, from + 1)

\* edit_file has run in this step without a failure of the filesystem.
Edited == edit.pc = "idle" /\ edit'.pc = "done" /\ edit'.ok

\* C39 (edit_file): when the old string does not occur in the file, or occurs
\* more than once and all is false, the file is unchanged and the call
\* returns Ok with a message that starts with "error: "; otherwise the one
\* occurrence (all false) or every occurrence (all true) is replaced by the
\* new string and the rest of the file is as it was.
C39_EditSemantics ==
    [][Edited =>
         LET occ == Occurrences(edit.text, edit'.old)
             n == Cardinality(occ)
         IN IF n = 0 \/ (n > 1 /\ ~edit'.all)
            THEN /\ edit'.text = edit.text
                 /\ edit'.out \in {NotFound} \cup {NotUnique(k) : k \in 2..n}
            ELSE /\ edit'.out = "ok"
                 /\ ~edit'.all =>
                       edit'.text = ReplacedAt(edit.text, edit'.old, edit'.new,
                                               CHOOSE i \in occ : TRUE)
                 /\ (edit'.all /\ Disjoint(edit.text, edit'.old)) =>
                       edit'.text = EveryReplaced(edit.text, edit'.old,
                                                  edit'.new, 1)]_vars

=============================================================================
